---- MODULE Spec2Model ----
(***************************************************************************)
(* Plex_Updater: the folder-state reconciliation engine.                   *)
(*                                                                         *)
(* One scan (main.py, periodic_folder_scan) loads the metadata cache and   *)
(* the previous folder snapshot, lists every monitored root, diffs each    *)
(* root, enriches the added folders (OMDb lookup, poster download), evicts *)
(* the removed ones, notifies over Telegram and persists both files.       *)
(*                                                                         *)
(* Strings whose characters matter (folder names, poster file names) are   *)
(* sequences of one-character strings.  Timestamps (datetime.now()) are    *)
(* values of a logical clock that ticks when a scan starts and when a      *)
(* lookup returns a record, so that stamps taken after different awaits    *)
(* differ.                                                                 *)
(*                                                                         *)
(* A coroutine runs without interruption between two awaits: a task that   *)
(* is not at an await point is the only one that can step.                 *)
(***************************************************************************)
EXTENDS Integers, Sequences, FiniteSets, TLC

(* ------------------------------ bounds -------------------------------- *)

\* scans started in one behaviour
MaxScans == 3

\* /update commands handled in one behaviour
MaxUpdates == 1

\* scans started in one behaviour in which the job and /update overlap
MaxOverlapScans == 3

\* the characters before the ending of a folder name that is parsed
MaxPrefixLen == 3

(* --------------------------- configuration ---------------------------- *)

\* CONFIG['monitored_folders']
MonitoredFolders == <<"r1", "r2">>

Roots == {MonitoredFolders[i] : i \in DOMAIN MonitoredFolders}

\* the child-folder names the library can hold; the first is a prefix of the second
Names == {<<"a">>, <<"a", "b">>}

\* the folders that can exist under each root: "a" under both, "ab" under the first
Library == [r \in Roots |-> IF r = "r1" THEN Names ELSE {<<"a">>}]

\* the contents the library can have
Libraries == {f \in [Roots -> SUBSET Names] : \A r \in Roots : f[r] \subseteq Library[r]}

\* the tasks that can run periodic_folder_scan: the JobQueue job and /update
Tasks == {"job", "manual"}

(* ------------------------------ strings ------------------------------- *)

\* code points of the characters used
Code(ch) ==
    CASE ch = "a" -> 97
      [] ch = "b" -> 98
      [] ch = "c" -> 99
      [] ch = "_" -> 95
      [] ch = ":" -> 58
      [] ch = ".jpg" -> 46
      [] OTHER -> 0

\* Python's str <: lexicographic by code point, a proper prefix first
RECURSIVE StrLess(_, _)
StrLess(s, t) ==
    IF s = <<>> THEN t # <<>>
    ELSE IF t = <<>> THEN FALSE
    ELSE IF Head(s) = Head(t) THEN StrLess(Tail(s), Tail(t))
    ELSE Code(Head(s)) < Code(Head(t))

\* sorted(list(S))
RECURSIVE SortedList(_)
SortedList(S) ==
    IF S = {} THEN <<>>
    ELSE LET m == CHOOSE x \in S : \A y \in S \ {x} : StrLess(x, y)
         IN  <<m>> \o SortedList(S \ {m})

\* str.startswith
StartsWith(s, p) ==
    /\ Len(p) <= Len(s)
    /\ SubSeq(s, 1, Len(p)) = p

\* the elements of a sequence
Range(s) == {s[i] : i \in DOMAIN s}

(* ------------------------- media_scraper: posters --------------------- *)

\* re.sub(r'[\\/:*?"<>|]', '_', folder_name)
IllegalChars == {"\\", "/", ":", "*", "?", "\"", "<", ">", "|"}

Sanitize(name) == [i \in DOMAIN name |-> IF name[i] \in IllegalChars THEN "_" ELSE name[i]]

\* no poster path (None)
NoPath == <<>>

\* the poster URLs the provider answers with: the "N/A" sentinel or an image URL
PosterUrls == {"N/A", "http://img/p.jpg"}

\* os.path.splitext(poster_url)[1], ".jpg" when the URL carries none
FileExtension(url) == ".jpg"

\* the usable-URL test of the scan and of download_poster
UsablePosterUrl(url) == url # "" /\ url # "N/A"

\* download_poster: the local file name, sanitized folder name plus extension
PosterFileName(name, url) == Sanitize(name) \o <<FileExtension(url)>>

\* delete_poster: every file of the directory whose name starts with the
\* sanitized folder name is removed
delete_poster(files, name) == {f \in files : ~StartsWith(f, Sanitize(name))}

(* ------------------------- the metadata cache ------------------------- *)

\* a MediaRecord as fetch_media_metadata_from_omdb builds it and the scan
\* extends it; timestamp 0 and NoPath stand for an absent key.
\* added_datetime tells whether the dict holds the datetime object that
\* recent_command stores under that key
NewRecord(url, t) ==
    [last_fetched |-> t, added_timestamp |-> 0, poster_url |-> url,
     local_poster_path |-> NoPath, added_datetime |-> FALSE]

\* metadata = None
NoMetadata == [some |-> FALSE, rec |-> NewRecord("N/A", 0)]

SomeMetadata(rec) == [some |-> TRUE, rec |-> rec]

\* a dict in insertion order: a sequence of (name, record) items.  isMap is
\* FALSE for a value json.load returned that is no dict (a list, a string)
EmptyCache == [isMap |-> TRUE, items |-> <<>>]

CacheKeys(c) == {c.items[i].name : i \in DOMAIN c.items}

\* folder_name in MEDIA_METADATA_CACHE
CacheHas(c, name) == name \in CacheKeys(c)

\* MEDIA_METADATA_CACHE.get(folder_name)
CacheGet(c, name) ==
    IF CacheHas(c, name)
    THEN SomeMetadata(c.items[CHOOSE i \in DOMAIN c.items : c.items[i].name = name].rec)
    ELSE NoMetadata

\* MEDIA_METADATA_CACHE[folder_name] = metadata
CachePut(c, name, rec) ==
    IF CacheHas(c, name)
    THEN [c EXCEPT !.items = [i \in DOMAIN c.items |->
              IF c.items[i].name = name THEN [name |-> name, rec |-> rec] ELSE c.items[i]]]
    ELSE [c EXCEPT !.items = Append(c.items, [name |-> name, rec |-> rec])]

\* del MEDIA_METADATA_CACHE[folder_name]
CacheDel(c, name) ==
    [c EXCEPT !.items = SelectSeq(c.items, LAMBDA it : it.name # name)]

\* the cache as a mapping, whatever the order of its items
CacheMapping(c) == [n \in CacheKeys(c) |-> CacheGet(c, n).rec]

(* ---------------------- media_metadata.json ---------------------------- *)

\* the file: missing, not JSON at all ("garbage"), a JSON array or string
\* ("array"), a JSON number or null ("scalar"), or a JSON object of records
MetaFile(kind, items) == [kind |-> kind, items |-> items]

\* read_media_metadata: json.load's value is returned as it is when len()
\* accepts it; a missing file and every exception give {}
read_media_metadata(file) ==
    CASE file.kind = "object" -> [raised |-> FALSE, value |-> [isMap |-> TRUE, items |-> file.items]]
      [] file.kind = "array" -> [raised |-> FALSE, value |-> [isMap |-> FALSE, items |-> <<>>]]
      [] OTHER -> [raised |-> FALSE, value |-> EmptyCache]

\* json.dump accepts every value of the records but a datetime object
Serializable(c) == \A i \in DOMAIN c.items : ~c.items[i].rec.added_datetime

\* write_media_metadata: json.dump of the dict, items in the dict's order.
\* The file is opened for writing first: when json.dump raises, the caught
\* exception leaves the file with the text written up to then, which is no
\* JSON
write_media_metadata(c) ==
    IF ~c.isMap THEN MetaFile("array", <<>>)
    ELSE IF Serializable(c) THEN MetaFile("object", c.items)
    ELSE MetaFile("garbage", <<>>)

(* ------------------------- folder_list.json ---------------------------- *)

\* a folder-state dict: the monitored paths it holds, their sets of child
\* names, and the "last_updated" value (0: the key is absent)
FolderState(roots, sets, stamp) == [roots |-> roots, sets |-> sets, last_updated |-> stamp]

EmptyFolderState == FolderState({}, [r \in Roots |-> {}], 0)

\* folder_state.get(folder_path, set())
FolderGet(st, r) == IF r \in st.roots THEN st.sets[r] ELSE {}

\* the file: missing, not JSON ("garbage"), JSON that is no object
\* ("nonobject"), or an object: a sequence of entries, each a key with a list
\* of names (t = "list"), a number (t = "num") or the timestamp (t = "stamp")
SnapFile(kind, entries) == [kind |-> kind, entries |-> entries]

ListEntry(key, list) == [key |-> key, t |-> "list", list |-> list, stamp |-> 0]

StampEntry(t) == [key |-> "last_updated", t |-> "stamp", list |-> <<>>, stamp |-> t]

NumEntry(key) == [key |-> key, t |-> "num", list |-> <<>>, stamp |-> 0]

\* the entry json.load keeps for a key: the last one
EntryOf(entries, key) ==
    entries[CHOOSE i \in DOMAIN entries :
               /\ entries[i].key = key
               /\ \A j \in DOMAIN entries : entries[j].key = key => j <= i]

\* read_folder_state: "last_updated" is copied, every other value goes
\* through set(); a missing file and every exception (no JSON, no .items(),
\* a value set() refuses) give {}

\* lines 64-70: the file exists, json.load accepts it, .items() and set() work
Loadable(file) ==
    /\ file.kind = "object"
    /\ \A i \in DOMAIN file.entries :
          file.entries[i].key # "last_updated" => file.entries[i].t = "list"

\* a loop that takes "last_updated" for the last key of the file
LoadedStateUpToStamp(entries) ==
    LET stop == IF \E i \in DOMAIN entries : entries[i].key = "last_updated"
                THEN CHOOSE i \in DOMAIN entries : entries[i].key = "last_updated"
                ELSE Len(entries) + 1
        keys == {entries[i].key : i \in 1..(stop - 1)}
    IN  FolderState(
            keys,
            [r \in Roots |-> IF r \in keys THEN Range(EntryOf(entries, r).list) ELSE {}],
            IF stop <= Len(entries) THEN entries[stop].stamp ELSE 0)

\* lines 72-77: the loaded state, every list turned into a set
LoadedState(entries) ==
    LET keys == {entries[i].key : i \in DOMAIN entries}
    IN  FolderState(
            keys \ {"last_updated"},
            [r \in Roots |-> IF r \in keys THEN Range(EntryOf(entries, r).list) ELSE {}],
            IF "last_updated" \in keys THEN EntryOf(entries, "last_updated").stamp ELSE 0)

\* a reader whose except clauses are missing: what json.load raises escapes
read_folder_state_unguarded(file) ==
    IF Loadable(file)
    THEN [raised |-> FALSE, value |-> LoadedState(file.entries)]
    ELSE [raised |-> file.kind # "missing", value |-> EmptyFolderState]

read_folder_state(file) ==
    IF Loadable(file)
    THEN [raised |-> FALSE, value |-> LoadedState(file.entries)]
    ELSE [raised |-> FALSE, value |-> EmptyFolderState]

\* write_folder_state: stamps the dict it is given, then dumps every set as
\* a sorted list, keys in the dict's order (the monitored paths, the stamp)
StampedFolderState(st, t) == [st EXCEPT !.last_updated = t]

\* lines 92-98 for a dict with the keys given, in their order, each with a
\* set: "last_updated" is assigned first, in the place of a key of that name
\* if there is one and after the last key if not, then every set is dumped
\* as a sorted list
DumpedEntries(keys, sets, t) ==
    [i \in DOMAIN keys |->
        IF keys[i] = "last_updated" THEN StampEntry(t)
        ELSE ListEntry(keys[i], SortedList(sets[keys[i]]))]
    \o (IF \E i \in DOMAIN keys : keys[i] = "last_updated"
        THEN <<>> ELSE <<StampEntry(t)>>)

write_folder_state(st, t) ==
    SnapFile("object", DumpedEntries(MonitoredFolders, st.sets, t))

\* no write_folder_state call on its own is under way
NoDict == [keys |-> <<>>, sets |-> <<>>]

(* ------------------ media_scraper: parse_folder_name ------------------ *)

\* \d
IsDigit(ch) == ch \in {"0", "1", "2", "3", "4", "5", "6", "7", "8", "9"}

\* \s, and what str.strip() removes
IsSpace(ch) == ch = " "

\* [._-]
IsSeparator(ch) == ch \in {".", "_", "-"}

\* str.strip()
RECURSIVE lstrip(_)
lstrip(s) == IF s # <<>> /\ IsSpace(Head(s)) THEN lstrip(Tail(s)) ELSE s

RECURSIVE rstrip(_)
rstrip(s) ==
    IF s # <<>> /\ IsSpace(s[Len(s)]) THEN rstrip(SubSeq(s, 1, Len(s) - 1)) ELSE s

strip(s) == lstrip(rstrip(s))

\* str.replace(old, new) of one character by one character
replace(s, old, new) == [i \in DOMAIN s |-> IF s[i] = old THEN new ELSE s[i]]

\* (\d{4}) at positions i .. i+3 of s
FourDigitsAt(s, i) ==
    /\ i >= 1
    /\ i + 3 <= Len(s)
    /\ \A j \in i..(i + 3) : IsDigit(s[j])

\* does \s*\((\d{4})\)$ match s from position k+1 on?
ParenYearFrom(s, k) ==
    /\ Len(s) - k >= 6
    /\ \A j \in (k + 1)..(Len(s) - 6) : IsSpace(s[j])
    /\ s[Len(s) - 5] = "("
    /\ FourDigitsAt(s, Len(s) - 4)
    /\ s[Len(s)] = ")"

\* does [._-]?(\d{4})$ match s from position k+1 on?
SepYearFrom(s, k) ==
    /\ FourDigitsAt(s, Len(s) - 3)
    /\ \/ Len(s) - k = 4
       \/ Len(s) - k = 5 /\ IsSeparator(s[k + 1])

NoMatch == [some |-> FALSE, title |-> <<>>, year |-> <<>>]

\* re.search with a pattern ^(.*?)REST$: group 1 is lazy, so it is the
\* shortest prefix after which REST matches up to the end
LazyPrefix(s, ks) == SubSeq(s, 1, CHOOSE k \in ks : \A j \in ks : k <= j)

\* line 24: re.search(r'^(.*?)\s*\((\d{4})\)$', folder_name)
match_paren_year(s) ==
    LET ks == {k \in 0..Len(s) : ParenYearFrom(s, k)}
    IN  IF ks = {} THEN NoMatch
        ELSE [some |-> TRUE, title |-> LazyPrefix(s, ks),
              year |-> SubSeq(s, Len(s) - 4, Len(s) - 1)]

\* line 31: re.search(r'^(.*?)[._-]?(\d{4})$', folder_name)
match_sep_year(s) ==
    LET ks == {k \in 0..Len(s) : SepYearFrom(s, k)}
    IN  IF ks = {} THEN NoMatch
        ELSE [some |-> TRUE, title |-> LazyPrefix(s, ks),
              year |-> SubSeq(s, Len(s) - 3, Len(s))]

\* a title in which "_" becomes a space as well
sep_title_with_underscores(g) ==
    strip(replace(replace(replace(g, ".", " "), "-", " "), "_", " "))

\* line 33: group(1).replace('.', ' ').replace('-', ' ').strip()
sep_title(g) == strip(replace(replace(g, ".", " "), "-", " "))

\* None as a year (a year that is found is never empty)
NoYear == <<>>

\* what a call returns
Parsed(title, year) == [some |-> TRUE, title |-> title, year |-> year]

NotParsed == [some |-> FALSE, title |-> <<>>, year |-> NoYear]

\* parse_folder_name (lines 17-39)
parse_folder_name(s) ==
    IF match_paren_year(s).some
    THEN Parsed(strip(match_paren_year(s).title), match_paren_year(s).year)
    ELSE IF match_sep_year(s).some
    THEN Parsed(sep_title(match_sep_year(s).title), match_sep_year(s).year)
    ELSE Parsed(strip(s), NoYear)

(* ------------------- telegram_bot_handler: /recent --------------------- *)

\* context.args of a /recent command: nothing, a word that int() refuses,
\* or an integer
NoArg == [given |-> FALSE, int |-> FALSE, n |-> 0]

WordArg == [given |-> TRUE, int |-> FALSE, n |-> 0]

IntArg(n) == [given |-> TRUE, int |-> TRUE, n |-> n]

\* no /recent command has been sent
NoCommand == [pc |-> "none", arg |-> NoArg, replies |-> <<>>, raised |-> FALSE]

\* a reply: the usage error, one of the two "nothing to list" texts, or a
\* list of items
Reply(kind, items) == [kind |-> kind, items |-> items]

\* lines 198-208: num_recent; 0 stands for the usage error
num_recent(arg) ==
    IF ~arg.given THEN 3
    ELSE IF arg.int /\ arg.n > 0 THEN arg.n
    ELSE 0

\* an added_timestamp that datetime.fromisoformat accepts: the model writes
\* 0 for a record without the key and a negative number for a string that
\* is no ISO date
ValidStamp(rec) == rec.added_timestamp > 0

\* lines 216-226: the records with a timestamp that parses, in the order of
\* the dict
recent_items(c) == SelectSeq(c.items, LAMBDA it : ValidStamp(it.rec))

\* line 233: list.sort(key = added_datetime, reverse = True), which is
\* stable: ties keep their order
RECURSIVE SortedByAdded(_)
SortedByAdded(l) ==
    IF l = <<>> THEN <<>>
    ELSE LET i == CHOOSE i \in DOMAIN l :
                     /\ \A j \in DOMAIN l : l[j].rec.added_timestamp <= l[i].rec.added_timestamp
                     /\ \A j \in 1..(i - 1) : l[j].rec.added_timestamp < l[i].rec.added_timestamp
         IN  <<l[i]>> \o SortedByAdded(SubSeq(l, 1, i - 1) \o SubSeq(l, i + 1, Len(l)))

\* line 249: the items of a reply, for the 3500 characters a reply may hold
RecentRoom == 2

\* lines 237-255: the items are packed into replies, a new one begun when
\* the next item does not fit
RECURSIVE Packed(_, _)
Packed(items, current) ==
    IF items = <<>> THEN <<Reply("list", current)>>
    ELSE IF Len(current) + 1 > RecentRoom
    THEN <<Reply("list", current)>> \o Packed(Tail(items), <<Head(items).name>>)
    ELSE Packed(Tail(items), Append(current, Head(items).name))

\* lines 260-263: the replies that go out.  The module never imports
\* asyncio, so the sleep after the first reply raises NameError and the loop
\* ends there
Sent(messages) == [replies |-> <<Head(messages)>>, raised |-> TRUE]

\* lines 217-225: the loop stores a datetime object in every record of the
\* dict whose timestamp parses
DatedRecords(c) ==
    [c EXCEPT !.items = [i \in DOMAIN c.items |->
        IF ValidStamp(c.items[i].rec)
        THEN [c.items[i] EXCEPT !.rec.added_datetime = TRUE]
        ELSE c.items[i]]]

\* the dict when recent_command has returned: the loop is reached with a
\* valid argument and a dict that is not empty
recent_command_leaves(c, arg) ==
    IF num_recent(arg) = 0 \/ c.items = <<>> THEN c ELSE DatedRecords(c)

\* recent_command (lines 190-263)
recent_command(c, arg) ==
    IF num_recent(arg) = 0
    THEN [replies |-> <<Reply("usage", <<>>)>>, raised |-> FALSE]
    ELSE IF c.items = <<>>
    THEN [replies |-> <<Reply("empty", <<>>)>>, raised |-> FALSE]
    ELSE IF recent_items(c) = <<>>
    THEN [replies |-> <<Reply("no_timestamps", <<>>)>>, raised |-> FALSE]
    ELSE LET sorted == SortedByAdded(recent_items(c))
             shown == SubSeq(sorted, 1, IF num_recent(arg) < Len(sorted)
                                        THEN num_recent(arg) ELSE Len(sorted))
         IN  Sent(Packed(shown, <<>>))

(* -------------------- telegram_notifier: escaping --------------------- *)

\* str.replace(old, new) of one character by a string
RECURSIVE replace_all(_, _, _)
replace_all(s, old, new) ==
    IF s = <<>> THEN <<>>
    ELSE (IF Head(s) = old THEN new ELSE <<Head(s)>>) \o replace_all(Tail(s), old, new)

\* the characters escape_markdown_v2 replaces after the backslash, in its
\* order; the backquote is written "backquote"
MarkdownSpecials ==
    <<"_", "*", "[", "]", "(", ")", "~", "backquote", ">", "#", "+", "-", "=", "|",
      "{", "}", ".", "!">>

\* the replacements from the k-th special character on
RECURSIVE EscapeFrom(_, _)
EscapeFrom(text, k) ==
    IF k > Len(MarkdownSpecials) THEN text
    ELSE EscapeFrom(replace_all(text, MarkdownSpecials[k], <<"\\", MarkdownSpecials[k]>>),
                    k + 1)

\* escape_markdown_v2: the backslash first, then every special character
escape_markdown_v2(text) == EscapeFrom(replace_all(text, "\\", <<"\\", "\\">>), 1)

\* "    - " in front of a folder name in the text
EntryPrefix == <<" ", " ", " ", " ", "-", " ">>

\* " (No detailed info/poster)" behind the name of an added folder
PlainSuffix ==
    <<" ", "(", "N", "o", " ", "d", "e", "t", "a", "i", "l", "e", "d", " ",
      "i", "n", "f", "o", "/", "p", "o", "s", "t", "e", "r", ")">>

\* the text behind a folder name: nothing for a removed folder
EntrySuffix(kind) == IF kind = "plain" THEN PlainSuffix ELSE <<>>

\* the entry the scan appends to telegram_message_parts for a folder
AppendedEntry(kind, name) ==
    EntryPrefix \o escape_markdown_v2(name) \o EntrySuffix(kind)

\* the entry of the sections rebuilt for a text that is split
SectionEntry(kind, name) == EntryPrefix \o name \o EntrySuffix(kind)

\* no entry line
NoMessage == [pc |-> "none", kind |-> "none", split |-> FALSE, line |-> <<>>, text |-> <<>>]

(* ------------------------------- state --------------------------------- *)

VARIABLES
    fs,           \* the library: the child directories of every monitored root
    snapFile,     \* folder_list.json
    metaFile,     \* media_metadata.json
    posters,      \* the file names in the posters directory
    cache,        \* the global MEDIA_METADATA_CACHE
    now,          \* the clock
    config,       \* CONFIG['app_settings']
    scan,         \* per task: the locals of its periodic_folder_scan call
    env,          \* what the environment changed since the last scan started
    removedSince, \* history: the names last seen removed and not seen added since
    lastListing,  \* history: the library as the latest scan listed it
    scansLeft,    \* the scans that may still start
    updates,      \* the /update commands handled so far
    disk,         \* the monitored roots that are not on disk, and the state
                  \* of the posters directory
    folder_name,  \* the argument of a parse_folder_name call
    parsed,       \* what that call returned, once it has
    folder_state_dict,  \* the argument of a write_folder_state call on its own
    bot_data,     \* application.bot_data: what the command handlers see
    recent,       \* a /recent command: its argument, and what it has replied
    message       \* one entry line of a scan's text message, up to the transport

vars == <<fs, snapFile, metaFile, posters, cache, now, config, scan, env,
          removedSince, lastListing, scansLeft, updates, disk, folder_name, parsed, folder_state_dict, bot_data, recent, message>>

\* the positions at which a scan is suspended at an await (or not running)
AwaitPcs == {"idle", "fetch", "download", "photo", "text"}

\* task t may take a step: no other task is inside a synchronous stretch
CanRun(t) == \A u \in Tasks \ {t} : scan[u].pc \in AwaitPcs

\* the environment acts between scans.  A scan reads the library and
\* folder_list.json in its first stretch only and overwrites the file in its
\* last, so a change made while it runs is the same change made right after it
Quiescent == \A u \in Tasks : scan[u].pc = "idle"

NoSets == [r \in Roots |-> {}]

NoChange == [fs |-> FALSE, snapshot |-> FALSE]

\* every monitored root exists and the posters directory can be listed and
\* its files deleted
DiskOk == [gone |-> {}, posters_dir |-> "ok"]

\* before the first scan: no scan has listed the library yet
NoListing == [some |-> FALSE, sets |-> NoSets]

\* CONFIG['app_settings'].get('send_no_change_message', False)
DefaultConfig == [send_no_change_message |-> FALSE]

\* main.py lines 436-438, and lines 142 and 158 of the scan.  bot_data holds
\* a reference to a cache dict: shared says that it is the dict the global
\* MEDIA_METADATA_CACHE names, and own is what the dict holds when it is
\* another one.  It holds the current_folder_state dict of a scan (state_of:
\* which scan's), once a scan has stored one
StartBotData ==
    [shared |-> TRUE, own |-> EmptyCache,
     current_folder_state |-> EmptyFolderState, state_of |-> "none"]

\* a reload that leaves bot_data with the dict the global named before
BotCacheLeftBehind(b, before) ==
    IF b.shared THEN [b EXCEPT !.shared = FALSE, !.own = before] ELSE b

\* lines 140-142: the global is bound to the dict just loaded, and bot_data
\* to the same dict
BotCacheAfterReload(b, before) == [b EXCEPT !.shared = TRUE]

\* context.bot_data.get('media_metadata_cache', {}) in a handler
SeenCache == IF bot_data.shared THEN cache ELSE bot_data.own

\* the locals of a scan that is not running
IdleScan ==
    [pc |-> "idle", outcome |-> "none",
     old |-> EmptyFolderState, cur |-> EmptyFolderState,
     ri |-> 0, added |-> {}, removed |-> {}, todo |-> <<>>,
     name |-> <<>>, metadata |-> NoMetadata,
     parts |-> <<>>, photos |-> <<>>, text |-> <<>>, has_changes |-> FALSE,
     overall_added_count |-> 0, overall_removed_count |-> 0,
     \* history of the call
     started |-> 0, loaded |-> SnapFile("none", <<>>), listed |-> NoSets,
     cacheAtStart |-> EmptyCache, postersAtStart |-> {},
     addedBy |-> NoSets, removedBy |-> NoSets,
     rerun |-> FALSE, readded |-> {},
     reused |-> {}, looked |-> {}, downloaded |-> {},
     lookupFailed |-> {}, downloadFailed |-> {},
     reads |-> <<>>, writes |-> <<>>, sendFailed |-> FALSE,
     undelivered |-> {}, fallbacks |-> {}, handed |-> {}]

Init ==
    /\ fs \in Libraries
    /\ snapFile = SnapFile("missing", <<>>)
    /\ metaFile = MetaFile("missing", <<>>)
    /\ posters = {}
    /\ cache = EmptyCache
    /\ now = 0
    /\ config = DefaultConfig
    /\ scan = [t \in Tasks |-> IdleScan]
    /\ env = NoChange
    /\ removedSince = {}
    /\ lastListing = NoListing
    /\ scansLeft = MaxScans
    /\ updates = 0
    /\ disk = DiskOk
    /\ folder_name = <<>>
    /\ parsed = NotParsed
    /\ folder_state_dict = NoDict
    /\ bot_data = StartBotData
    /\ recent = NoCommand
    /\ message = NoMessage

(* ------------------------------ the scan ------------------------------- *)

\* get_subfolders: the names of the direct subfolders of a monitored root,
\* none for a root that is not on disk (lines 43-46)
get_subfolders(r) == IF r \in disk.gone THEN {} ELSE fs[r]

\* an entry of telegram_message_parts
Part(kind, root, name) == [kind |-> kind, root |-> root, name |-> name]

\* the per-root sets of child names a snapshot file holds
FileSets(file) == read_folder_state(file).value.sets

\* the scan raised: the job (or the /update handler) ends, nothing is written
Crashed == [IdleScan EXCEPT !.outcome = "crashed"]

\* the scan returned
Finished == [IdleScan EXCEPT !.outcome = "finished"]

\* lines 140, 144 and 151-154: what a scan reads before it compares, in the
\* order of the calls
StartReads == <<"metadata", "snapshot", "listing">>

\* lines 114-167: reload the cache, read the previous state, list every root
ScanStart(t) ==
    /\ scan[t].pc = "idle"
    /\ scansLeft > 0
    /\ t = "manual" => updates < MaxUpdates
    /\ CanRun(t)
    /\ now' = now + 1
    /\ scansLeft' = scansLeft - 1
    /\ updates' = IF t = "manual" THEN updates + 1 ELSE updates
    /\ env' = NoChange
    /\ LET m == read_media_metadata(metaFile)
           o == read_folder_state(snapFile)
           listing == [r \in Roots |-> get_subfolders(r)]
       IN  IF m.raised \/ o.raised
           THEN /\ scan' = [scan EXCEPT ![t] = Crashed]
                /\ cache' = IF m.raised THEN cache ELSE m.value
           ELSE /\ cache' = m.value
                /\ scan' = [scan EXCEPT ![t] =
                      [IdleScan EXCEPT
                          !.pc = "root", !.ri = 1,
                          !.old = o.value,
                          !.cur = FolderState(Roots, listing, 0),
                          !.started = now + 1,
                          !.reads = StartReads,
                          !.loaded = snapFile,
                          !.listed = listing,
                          !.cacheAtStart = m.value,
                          !.postersAtStart = posters,
                          !.rerun = /\ lastListing = [some |-> TRUE, sets |-> listing]
                                    /\ ~env.snapshot]]
    /\ lastListing' = [some |-> TRUE, sets |-> [r \in Roots |-> get_subfolders(r)]]
    /\ bot_data' =
          LET m == read_media_metadata(metaFile)
              o == read_folder_state(snapFile)
              b == BotCacheAfterReload(bot_data, cache)
          IN  IF m.raised THEN bot_data
              ELSE IF o.raised THEN b
              ELSE [b EXCEPT !.current_folder_state =
                                 FolderState(Roots, [r \in Roots |-> get_subfolders(r)], 0),
                             !.state_of = t]
    /\ UNCHANGED <<fs, snapFile, metaFile, posters, config, removedSince, disk, folder_name, parsed, folder_state_dict, recent, message>>

\* a diff that compares a root with the previous contents of every root
AddedAcrossRoots(old, cur, r) == FolderGet(cur, r) \ UNION {FolderGet(old, q) : q \in Roots}

\* a diff that takes every folder present for added
AddedWhateverWasThere(old, cur, r) == FolderGet(cur, r)

\* the diff of one root: lines 172-176
AddedFor(old, cur, r) == FolderGet(cur, r) \ FolderGet(old, r)

RemovedFor(old, cur, r) == FolderGet(old, r) \ FolderGet(cur, r)

\* lines 170-188: one iteration of the comparison loop begins
RootStep(t) ==
    /\ scan[t].pc = "root"
    /\ CanRun(t)
    /\ LET sc == scan[t]
           r == MonitoredFolders[sc.ri]
           a == AddedFor(sc.old, sc.cur, r)
           d == RemovedFor(sc.old, sc.cur, r)
       IN  /\ scan' = [scan EXCEPT ![t] =
                  [sc EXCEPT
                      !.added = a, !.removed = d,
                      !.addedBy[r] = a, !.removedBy[r] = d,
                      !.readded = @ \cup (a \cap removedSince),
                      !.overall_added_count = @ + Cardinality(a),
                      !.overall_removed_count = @ + Cardinality(d),
                      !.has_changes = @ \/ a # {},
                      !.parts = IF a # {}
                                THEN @ \o <<Part("root", r, <<>>), Part("added_title", r, <<>>)>>
                                ELSE @,
                      !.todo = SortedList(a),
                      !.pc = IF a # {} THEN "add" ELSE "evict"]]
           /\ removedSince' = removedSince \ a
    /\ UNCHANGED <<fs, snapFile, metaFile, posters, cache, now, config, env,
                   lastListing, scansLeft, updates, disk, folder_name, parsed, folder_state_dict, bot_data, recent, message>>

\* a test that takes no cached record for fetched
NeverCacheHit(metadata) == FALSE

\* line 198: the cached record is reused
CacheHit(metadata) == metadata.some /\ metadata.rec.last_fetched # 0

\* a test that sends every added folder to the poster download
AlwaysWantsPoster(metadata) == TRUE

\* line 209: the record has a poster to download
WantsPoster(metadata) == metadata.some /\ UsablePosterUrl(metadata.rec.poster_url)

\* lines 218-242: the added folder is queued as a photo when its poster file
\* exists (files: the posters directory), and listed as plain text otherwise
Announce(sc, path, files) ==
    [sc EXCEPT
        !.photos = IF path # NoPath /\ path \in files
                   THEN Append(@, [name |-> sc.name, photo_path |-> path,
                                   root |-> MonitoredFolders[sc.ri]])
                   ELSE @,
        !.parts = IF path # NoPath /\ path \in files
                  THEN @
                  ELSE Append(@, Part("plain", MonitoredFolders[sc.ri], sc.name)),
        !.todo = Tail(@),
        !.pc = "add"]

\* lines 190-199, 208-209: the next added folder, up to its first await
AddStep(t) ==
    /\ scan[t].pc = "add"
    /\ CanRun(t)
    /\ LET sc == scan[t] IN
       IF sc.todo = <<>>
       THEN \* line 243, the loop is over
            scan' = [scan EXCEPT ![t] =
                [sc EXCEPT !.parts = Append(@, Part("newline", MonitoredFolders[sc.ri], <<>>)),
                           !.pc = "evict"]]
       ELSE LET n == Head(sc.todo)
                md == CacheGet(cache, n)
                s1 == [sc EXCEPT !.name = n, !.metadata = md]
            IN  IF ~cache.isMap
                THEN \* .get of a value that is no dict raises
                     scan' = [scan EXCEPT ![t] = Crashed]
                ELSE IF ~CacheHit(md)
                THEN scan' = [scan EXCEPT ![t] = [s1 EXCEPT !.pc = "fetch"]]
                ELSE IF WantsPoster(md)
                THEN scan' = [scan EXCEPT ![t] =
                         [s1 EXCEPT !.pc = "download", !.reused = @ \cup {n}]]
                ELSE scan' = [scan EXCEPT ![t] =
                         Announce([s1 EXCEPT !.reused = @ \cup {n}], NoPath, posters)]
    /\ UNCHANGED <<fs, snapFile, metaFile, posters, cache, now, config, env, removedSince, lastListing, scansLeft, updates, disk, folder_name, parsed, folder_state_dict, bot_data, recent, message>>

\* what the lookup collaborator answers: nothing (not found, error), or a record
OmdbAnswers == {[found |-> FALSE, poster_url |-> "N/A"]}
               \cup {[found |-> TRUE, poster_url |-> u] : u \in PosterUrls}

\* lines 203-206: a fetched record is stamped and stored
\* a record left without its added_timestamp
NotStamped(rec, t) == rec

Stamped(rec, t) == [rec EXCEPT !.added_timestamp = t]

\* lines 202-209: fetch_media_metadata_from_omdb has returned
FetchDone(t) ==
    /\ scan[t].pc = "fetch"
    /\ CanRun(t)
    /\ \E ans \in OmdbAnswers :
         LET sc == scan[t]
             time == IF ans.found THEN now + 1 ELSE now
             md == IF ans.found
                   THEN SomeMetadata(Stamped(NewRecord(ans.poster_url, time), time))
                   ELSE NoMetadata
             s1 == [sc EXCEPT !.metadata = md, !.looked = @ \cup {sc.name},
                              !.lookupFailed = IF ans.found THEN @ ELSE @ \cup {sc.name}]
         IN  /\ now' = time
             /\ IF ans.found /\ ~cache.isMap
                THEN /\ scan' = [scan EXCEPT ![t] = Crashed]
                     /\ UNCHANGED cache
                ELSE /\ cache' = IF ans.found THEN CachePut(cache, sc.name, md.rec) ELSE cache
                     /\ scan' = [scan EXCEPT ![t] =
                            IF WantsPoster(md) THEN [s1 EXCEPT !.pc = "download"]
                            ELSE Announce(s1, NoPath, posters)]
    /\ UNCHANGED <<fs, snapFile, metaFile, posters, config, env, removedSince, lastListing, scansLeft, updates, disk, folder_name, parsed, folder_state_dict, bot_data, recent, message>>

\* lines 211-242: download_poster has returned, with the file saved or None
DownloadDone(t) ==
    /\ scan[t].pc = "download"
    /\ CanRun(t)
    /\ \E ok \in BOOLEAN :
         LET sc == scan[t]
             path == PosterFileName(sc.name, sc.metadata.rec.poster_url)
             \* metadata is the dict the cache holds under the name
             rec == [sc.metadata.rec EXCEPT
                        !.local_poster_path = path,
                        !.added_datetime = @ \/ CacheGet(cache, sc.name).rec.added_datetime]
         IN  IF ok
             THEN /\ posters' = posters \cup {path}
                  /\ IF ~cache.isMap
                     THEN /\ scan' = [scan EXCEPT ![t] = Crashed]
                          /\ UNCHANGED cache
                     ELSE /\ cache' = CachePut(cache, sc.name, rec)
                          /\ scan' = [scan EXCEPT ![t] =
                                 Announce([sc EXCEPT !.metadata = SomeMetadata(rec),
                                                     !.downloaded = @ \cup {sc.name}],
                                          path, posters \cup {path})]
             ELSE /\ UNCHANGED <<posters, cache>>
                  /\ scan' = [scan EXCEPT ![t] =
                         Announce([sc EXCEPT !.downloadFailed = @ \cup {sc.name}],
                                  NoPath, posters)]
    /\ UNCHANGED <<fs, snapFile, metaFile, now, config, env, removedSince, lastListing, scansLeft, updates, disk, folder_name, parsed, folder_state_dict, bot_data, recent, message>>

\* media_scraper.py lines 187-188: os.listdir(posters_dir) is called outside
\* any try, for a directory that exists; it raises when the directory cannot
\* be listed (no read permission, or the path is no directory)
ListingRaises(dir) == dir = "unlistable"

\* lines 258-260 for one removed name: its record goes, if there is one
EvictRecord(c, name) == IF CacheHas(c, name) THEN CacheDel(c, name) ELSE c

\* lines 253-261 for a sorted list of removed names: posters and records go
RECURSIVE EvictAll(_, _, _)
EvictAll(names, files, c) ==
    IF names = <<>> THEN [posters |-> files, cache |-> c]
    ELSE EvictAll(Tail(names),
                  delete_poster(files, Head(names)),
                  EvictRecord(c, Head(names)))

\* the message parts of the removed names of one root: lines 251-262
RemovedParts(r, names) ==
    <<Part("root", r, <<>>), Part("removed_title", r, <<>>)>>
    \o [i \in DOMAIN names |-> Part("removed", r, names[i])]
    \o <<Part("newline", r, <<>>)>>

\* lines 245-266: the removed folders of the root, then the next root
EvictStep(t) ==
    /\ scan[t].pc = "evict"
    /\ CanRun(t)
    /\ LET sc == scan[t]
           r == MonitoredFolders[sc.ri]
           names == SortedList(sc.removed)
           ev == EvictAll(names, posters, cache)
       IN  IF sc.removed # {} /\ ListingRaises(disk.posters_dir)
           THEN \* os.listdir raises in delete_poster for the first removed
                \* name, before its record is deleted
                /\ scan' = [scan EXCEPT ![t] = Crashed]
                /\ UNCHANGED <<posters, cache, removedSince>>
           ELSE /\ posters' = IF disk.posters_dir = "undeletable" THEN posters
                               ELSE ev.posters
                /\ cache' = ev.cache
                /\ removedSince' = removedSince \cup sc.removed
                /\ scan' = [scan EXCEPT ![t] =
                       [sc EXCEPT
                           !.has_changes = @ \/ sc.removed # {},
                           !.parts = IF sc.removed # {} THEN @ \o RemovedParts(r, names) ELSE @,
                           !.ri = IF sc.ri < Len(MonitoredFolders) THEN @ + 1 ELSE @,
                           !.pc = IF sc.ri < Len(MonitoredFolders) THEN "root" ELSE "notify"]]
    /\ UNCHANGED <<fs, snapFile, metaFile, now, config, env, lastListing, scansLeft, updates, disk, folder_name, parsed, folder_state_dict, bot_data, recent, message>>

\* lines 269-296: the text is built; the photo queue, if any, comes first
NotifyStep(t) ==
    /\ scan[t].pc = "notify"
    /\ CanRun(t)
    /\ scan' = [scan EXCEPT ![t].pc = IF scan[t].photos # <<>> THEN "photo" ELSE "textdecide"]
    /\ UNCHANGED <<fs, snapFile, metaFile, posters, cache, now, config, env, removedSince, lastListing, scansLeft, updates, disk, folder_name, parsed, folder_state_dict, bot_data, recent, message>>

\* a photo loop that ends at the first send
AfterFirstSend(delivered, more) == "textdecide"

\* a photo sender that lets its errors escape: the scan ends there
AfterSendRaising(delivered, more) ==
    IF ~delivered THEN "idle" ELSE IF more THEN "photo" ELSE "textdecide"

\* where the scan goes once a send has returned (more: sends are left in
\* the queue): the senders log every error and raise none
\* (telegram_notifier.py, lines 44-53 and 67-76)
AfterSend(delivered, more) == IF more THEN "photo" ELSE "textdecide"

\* lines 297-302: the flag after the await.  send_telegram_photo returns
\* normally whether or not the photo went out (it returns early for a file
\* that is missing and catches every error of the send), so the assignment
\* that follows the await is always reached
photo_sent_successfully(delivered) == TRUE

\* send_telegram_photo hands the photo to the transport when its file
\* exists, and returns without sending otherwise (telegram_notifier.py,
\* lines 63-65)
HandsOver(photo, files) == photo.photo_path \in files

\* lines 296-317: send_telegram_photo has returned; the text fallback is
\* sent when the flag is not set
PhotoDone(t) ==
    /\ scan[t].pc = "photo"
    /\ CanRun(t)
    /\ \E delivered \in (IF HandsOver(Head(scan[t].photos), posters)
                         THEN BOOLEAN ELSE {FALSE}) :
         LET next == AfterSend(delivered, Tail(scan[t].photos) # <<>>)
             photo == Head(scan[t].photos)
         IN
         scan' = [scan EXCEPT ![t] =
             IF next = "idle" THEN Crashed
             ELSE [@ EXCEPT !.photos = Tail(@),
                            !.handed = IF HandsOver(photo, posters)
                                       THEN @ \cup {<<photo.root, photo.name>>}
                                       ELSE @,
                            !.sendFailed = @ \/ ~delivered,
                            !.undelivered = IF delivered THEN @
                                            ELSE @ \cup {Head(scan[t].photos).name},
                            !.fallbacks = IF photo_sent_successfully(delivered) THEN @
                                          ELSE @ \cup {Head(scan[t].photos).name},
                            !.pc = next]]
    /\ UNCHANGED <<fs, snapFile, metaFile, posters, cache, now, config, env, removedSince, lastListing, scansLeft, updates, disk, folder_name, parsed, folder_state_dict, bot_data, recent, message>>

\* lines 321-369: is a text message sent?  tooLong: the escaped text exceeds
\* max_telegram_message_length
SendsText(sc, tooLong) ==
    /\ sc.parts # <<>> \/ ~sc.has_changes
    /\ tooLong \/ sc.has_changes \/ config.send_no_change_message

\* lines 332-346, for the roots from index i on: the sections of a text
\* that is split.  Every added name of the root is listed (no caption, which
\* is escaped Markdown, begins with a folder name); the removed names are
\* those of removed_for_path, which the comparison loop left at the value of
\* its last iteration, listed under every root
RECURSIVE SplitSections(_, _)
SplitSections(sc, i) ==
    IF i > Len(MonitoredFolders) THEN <<>>
    ELSE LET r == MonitoredFolders[i]
             a == SortedList(AddedFor(sc.old, sc.cur, r))
             d == SortedList(sc.removed)
         IN  (IF a # <<>>
              THEN <<Part("root", r, <<>>), Part("added_title", r, <<>>)>>
                   \o [k \in DOMAIN a |-> Part("plain", r, a[k])]
              ELSE <<>>)
             \o (IF d # <<>>
                 THEN <<Part("root", r, <<>>), Part("removed_title", r, <<>>)>>
                      \o [k \in DOMAIN d |-> Part("removed", r, d[k])]
                 ELSE <<>>)
             \o SplitSections(sc, i + 1)

\* lines 271-281 and 329: how the text begins.  A text that is split begins
\* with the title of a split update, whether or not there are changes
TextHeader(sc, tooLong) ==
    Part(IF tooLong THEN "split_title"
         ELSE IF sc.has_changes THEN "updates_title" ELSE "status_title",
         "", <<>>)

\* lines 321-369: the text that goes out, whole or rebuilt to be split
TextDecide(t) ==
    /\ scan[t].pc = "textdecide"
    /\ CanRun(t)
    /\ \E tooLong \in BOOLEAN :
         scan' = [scan EXCEPT ![t] =
                     IF SendsText(scan[t], tooLong)
                     THEN [@ EXCEPT !.pc = "text",
                                    !.text = <<TextHeader(scan[t], tooLong)>>
                                             \o (IF tooLong
                                                 THEN SplitSections(scan[t], 1)
                                                 ELSE scan[t].parts)]
                     ELSE [@ EXCEPT !.pc = "writeSnap"]]
    /\ UNCHANGED <<fs, snapFile, metaFile, posters, cache, now, config, env, removedSince, lastListing, scansLeft, updates, disk, folder_name, parsed, folder_state_dict, bot_data, recent, message>>

\* a text sender that lets its errors escape: the scan ends there
AfterTextRaising(delivered) == IF delivered THEN "writeSnap" ELSE "idle"

\* where the scan goes once the text send has returned
AfterText(delivered) == "writeSnap"

\* lines 358-367: send_telegram_message has returned
TextDone(t) ==
    /\ scan[t].pc = "text"
    /\ CanRun(t)
    /\ \E delivered \in BOOLEAN :
         scan' = [scan EXCEPT ![t] =
             IF AfterText(delivered) = "idle" THEN Crashed
             ELSE [@ EXCEPT !.sendFailed = @ \/ ~delivered,
                            !.text = <<>>,
                            !.pc = AfterText(delivered)]]
    /\ UNCHANGED <<fs, snapFile, metaFile, posters, cache, now, config, env, removedSince, lastListing, scansLeft, updates, disk, folder_name, parsed, folder_state_dict, bot_data, recent, message>>

\* line 373: write_folder_state(current_folder_state)
WriteSnap(t) ==
    /\ scan[t].pc = "writeSnap"
    /\ CanRun(t)
    /\ snapFile' = write_folder_state(scan[t].cur, now)
    /\ scan' = [scan EXCEPT ![t] =
           [@ EXCEPT !.cur = StampedFolderState(@, now),
                     !.writes = Append(@, "snapshot"),
                     !.pc = "writeMeta"]]
    \* line 92: the dict that is stamped is the one bot_data holds, when no
    \* later scan has replaced it there
    /\ bot_data' = IF bot_data.state_of = t
                   THEN [bot_data EXCEPT !.current_folder_state =
                                            StampedFolderState(@, now)]
                   ELSE bot_data
    /\ UNCHANGED <<fs, metaFile, posters, cache, now, config, env, removedSince, lastListing, scansLeft, updates, disk, folder_name, parsed, folder_state_dict, recent, message>>

\* line 376: write_media_metadata(MEDIA_METADATA_CACHE); the scan returns
WriteMeta(t) ==
    /\ scan[t].pc = "writeMeta"
    /\ CanRun(t)
    /\ metaFile' = write_media_metadata(cache)
    /\ scan' = [scan EXCEPT ![t] = Finished]
    /\ UNCHANGED <<fs, snapFile, posters, cache, now, config, env, removedSince, lastListing, scansLeft, updates, disk, folder_name, parsed, folder_state_dict, bot_data, recent, message>>

\* one step of the scan task t runs
ScanStep(t) ==
    \/ ScanStart(t)
    \/ RootStep(t)
    \/ AddStep(t)
    \/ FetchDone(t)
    \/ DownloadDone(t)
    \/ EvictStep(t)
    \/ NotifyStep(t)
    \/ PhotoDone(t)
    \/ TextDecide(t)
    \/ TextDone(t)
    \/ WriteSnap(t)
    \/ WriteMeta(t)

(* --------------------- parse_folder_name on its own -------------------- *)

\* the characters a folder name begins with
PrefixChars == {"A", " ", ".", "-", "_", "(", "7"}

\* how a folder name ends
Endings ==
    {<<>>,
     <<"(", "2", "0", "1", "0", ")">>,
     <<" ", "(", "2", "0", "1", "0", ")">>,
     <<"1", "9", "9", "9">>,
     <<".", "1", "9", "9", "9">>,
     <<"_", "1", "9", "9", "9">>,
     <<"-", "1", "9", "9", "9">>,
     <<"(", "2", "0", "1", ")">>,
     <<"(", "2", "0", "1", "0">>,
     <<"2", "0", "1", "0", ")">>,
     <<"(", "2", "0", "1", "0", "1", ")">>,
     <<"(", "2", "0", "1", "0", ")", " ">>,
     <<"A">>}

Inception2010 ==
    <<"I", "n", "c", "e", "p", "t", "i", "o", "n", " ", "(", "2", "0", "1", "0", ")">>

TheMatrix1999 ==
    <<"T", "h", "e", ".", "M", "a", "t", "r", "i", "x", ".", "1", "9", "9", "9">>

RandomFolder ==
    <<"R", "a", "n", "d", "o", "m", " ", "F", "o", "l", "d", "e", "r">>

\* the folder names parse_folder_name is called with
FolderNames ==
    {p \o e : p \in UNION {[1..n -> PrefixChars] : n \in 0..MaxPrefixLen},
              e \in Endings}
    \cup {Inception2010, TheMatrix1999, RandomFolder}

InitParse ==
    /\ fs = [r \in Roots |-> {}]
    /\ snapFile = SnapFile("none", <<>>)
    /\ metaFile = MetaFile("none", <<>>)
    /\ posters = {}
    /\ cache = EmptyCache
    /\ now = 0
    /\ config = DefaultConfig
    /\ scan = [t \in Tasks |-> IdleScan]
    /\ env = NoChange
    /\ removedSince = {}
    /\ lastListing = NoListing
    /\ scansLeft = 0
    /\ updates = 0
    /\ disk = DiskOk
    /\ folder_name \in FolderNames
    /\ parsed = NotParsed
    /\ folder_state_dict = NoDict
    /\ bot_data = StartBotData
    /\ recent = NoCommand
    /\ message = NoMessage

\* one call of parse_folder_name
ParseStep ==
    /\ ~parsed.some
    /\ parsed' = parse_folder_name(folder_name)
    /\ UNCHANGED <<fs, snapFile, metaFile, posters, cache, now, config, scan, env,
                   removedSince, lastListing, scansLeft, updates, disk, folder_name, folder_state_dict, bot_data, recent, message>>

NextParse == ParseStep

SpecParse == InitParse /\ [][NextParse]_vars

(* --------------------------- the environment --------------------------- *)

\* between two scans folders are added to or removed from the monitored roots
FsChange ==
    /\ Quiescent
    /\ scansLeft > 0
    /\ ~env.fs
    /\ env' = [env EXCEPT !.fs = TRUE]
    /\ \E f \in Libraries : f # fs /\ fs' = f
    /\ UNCHANGED <<snapFile, metaFile, posters, cache, now, config, scan, removedSince, lastListing, scansLeft, updates, disk, folder_name, parsed, folder_state_dict, bot_data, recent, message>>

\* folder_list.json is deleted, or left truncated by an interrupted write
LoseSnapshot ==
    /\ Quiescent
    /\ scansLeft > 0
    /\ ~env.snapshot
    /\ env' = [env EXCEPT !.snapshot = TRUE]
    /\ \E k \in {"missing", "garbage"} : snapFile' = SnapFile(k, <<>>)
    /\ snapFile' # snapFile
    /\ UNCHANGED <<fs, metaFile, posters, cache, now, config, scan, removedSince, lastListing, scansLeft, updates, disk, folder_name, parsed, folder_state_dict, bot_data, recent, message>>

Next ==
    \/ ScanStep("job")
    \/ FsChange
    \/ LoseSnapshot

Spec == Init /\ [][Next]_vars

\* the libraries of the behaviours in which scans overlap: one folder, under
\* the first root, or none
OverlapLibraries == {f \in Libraries : f["r1"] \subseteq {<<"a">>} /\ f["r2"] = {}}

\* while scans overlap the library changes whenever no coroutine is running,
\* between two awaits of a scan included
FsChangeAnyTime ==
    /\ \A u \in Tasks : scan[u].pc \in AwaitPcs
    /\ scansLeft > 0
    /\ ~env.fs
    /\ env' = [env EXCEPT !.fs = TRUE]
    /\ \E f \in OverlapLibraries : f # fs /\ fs' = f
    /\ UNCHANGED <<snapFile, metaFile, posters, cache, now, config, scan, removedSince, lastListing, scansLeft, updates, disk, folder_name, parsed, folder_state_dict, bot_data, recent, message>>

\* the JobQueue job and the /update handler both run: update_command awaits
\* the scan while the job can fire, and the other way round
NextOverlap ==
    \/ ScanStep("job")
    \/ ScanStep("manual")
    \/ FsChangeAnyTime

\* the cache an earlier run left for a library: a record for every folder,
\* none with a poster
LeftCache(lib) ==
    LET names == SortedList(UNION {lib[r] : r \in Roots})
    IN  [isMap |-> TRUE,
         items |-> [i \in DOMAIN names |->
                      [name |-> names[i], rec |-> Stamped(NewRecord("N/A", 1), 1)]]]

\* the program starts with the two files an earlier run wrote at time 1 for
\* the library of that time
InitOverlap ==
    /\ fs \in OverlapLibraries
    /\ \E prev \in OverlapLibraries :
          /\ snapFile = write_folder_state(FolderState(Roots, prev, 0), 1)
          /\ metaFile = write_media_metadata(LeftCache(prev))
    /\ posters = {}
    /\ cache = EmptyCache
    /\ now = 1
    /\ config = DefaultConfig
    /\ scan = [t \in Tasks |-> IdleScan]
    /\ env = NoChange
    /\ removedSince = {}
    /\ lastListing = NoListing
    /\ scansLeft = MaxOverlapScans
    /\ updates = 0
    /\ disk = DiskOk
    /\ folder_name = <<>>
    /\ parsed = NotParsed
    /\ folder_state_dict = NoDict
    /\ bot_data = StartBotData
    /\ recent = NoCommand
    /\ message = NoMessage

SpecOverlap == InitOverlap /\ [][NextOverlap]_vars

\* scans started in one behaviour that begins with files of any shape
MaxAnyFileScans == 2

\* what media_metadata.json can hold when the program starts: nothing, no
\* JSON, a number, an array, or an object with the record of an earlier run
MetaFileShapes ==
    {MetaFile(k, <<>>) : k \in {"missing", "garbage", "scalar", "array"}}
    \cup {MetaFile("object", <<[name |-> <<"a">>, rec |-> Stamped(NewRecord("N/A", 1), 1)]>>)}

\* what folder_list.json can hold when the program starts: nothing, no JSON,
\* JSON that is no object, an object with a number for a root, an object
\* written by hand (one root, names unsorted), or the file of an earlier run
SnapFileShapes ==
    {SnapFile(k, <<>>) : k \in {"missing", "garbage", "nonobject"}}
    \cup {SnapFile("object", <<NumEntry("r1"), StampEntry(1)>>),
          SnapFile("object", <<ListEntry("r1", <<<<"a", "b">>, <<"a">>>>)>>),
          write_folder_state(FolderState(Roots, Library, 0), 1)}

InitAnyFiles ==
    /\ fs \in Libraries
    /\ snapFile \in SnapFileShapes
    /\ metaFile \in MetaFileShapes
    /\ posters = {}
    /\ cache = EmptyCache
    /\ now = 1
    /\ config = DefaultConfig
    /\ scan = [t \in Tasks |-> IdleScan]
    /\ env = NoChange
    /\ removedSince = {}
    /\ lastListing = NoListing
    /\ scansLeft = MaxAnyFileScans
    /\ updates = 0
    /\ disk = DiskOk
    /\ folder_name = <<>>
    /\ parsed = NotParsed
    /\ folder_state_dict = NoDict
    /\ bot_data = StartBotData
    /\ recent = NoCommand
    /\ message = NoMessage

SpecAnyFiles == InitAnyFiles /\ [][Next]_vars

\* scans started in one behaviour in which the disk misbehaves
MaxDiskScans == 2

\* the states the posters directory can be in: fine, not listable (exists,
\* but os.listdir raises), or listable with files that os.remove refuses
PostersDirStates == {"ok", "unlistable", "undeletable"}

\* the program starts, on a first run, with a posters directory in any state
InitPostersDir ==
    /\ fs \in Libraries
    /\ snapFile = SnapFile("missing", <<>>)
    /\ metaFile = MetaFile("missing", <<>>)
    /\ posters = {}
    /\ cache = EmptyCache
    /\ now = 0
    /\ config = DefaultConfig
    /\ scan = [t \in Tasks |-> IdleScan]
    /\ env = NoChange
    /\ removedSince = {}
    /\ lastListing = NoListing
    /\ scansLeft = MaxDiskScans
    /\ updates = 0
    /\ \E d \in PostersDirStates : disk = [gone |-> {}, posters_dir |-> d]
    /\ folder_name = <<>>
    /\ parsed = NotParsed
    /\ folder_state_dict = NoDict
    /\ bot_data = StartBotData
    /\ recent = NoCommand
    /\ message = NoMessage

SpecPostersDir == InitPostersDir /\ [][Next]_vars

\* between two scans a monitored root disappears from the disk (deleted,
\* renamed, its volume unmounted)
RootGoes ==
    /\ Quiescent
    /\ scansLeft > 0
    /\ \E r \in Roots \ disk.gone : disk' = [disk EXCEPT !.gone = @ \cup {r}]
    /\ UNCHANGED <<fs, snapFile, metaFile, posters, cache, now, config, scan, env,
                   removedSince, lastListing, scansLeft, updates,
                   folder_name, parsed, folder_state_dict, bot_data, recent, message>>

NextRoots ==
    \/ ScanStep("job")
    \/ FsChange
    \/ RootGoes

\* a first run whose monitored roots can disappear between the scans
InitRoots ==
    /\ fs \in Libraries
    /\ snapFile = SnapFile("missing", <<>>)
    /\ metaFile = MetaFile("missing", <<>>)
    /\ posters = {}
    /\ cache = EmptyCache
    /\ now = 0
    /\ config = DefaultConfig
    /\ scan = [t \in Tasks |-> IdleScan]
    /\ env = NoChange
    /\ removedSince = {}
    /\ lastListing = NoListing
    /\ scansLeft = MaxDiskScans
    /\ updates = 0
    /\ disk = DiskOk
    /\ folder_name = <<>>
    /\ parsed = NotParsed
    /\ folder_state_dict = NoDict
    /\ bot_data = StartBotData
    /\ recent = NoCommand
    /\ message = NoMessage

SpecRoots == InitRoots /\ [][NextRoots]_vars

(* ------------------------ scans that are let run ----------------------- *)

\* scans started in one behaviour in which every call returns
MaxLiveScans == 2

\* CONFIG['app_settings']: the no-change message is asked for, or not
Configs == {[send_no_change_message |-> b] : b \in BOOLEAN}

InitLive ==
    /\ fs \in Libraries
    /\ snapFile = SnapFile("missing", <<>>)
    /\ metaFile = MetaFile("missing", <<>>)
    /\ posters = {}
    /\ cache = EmptyCache
    /\ now = 0
    /\ config \in Configs
    /\ scan = [t \in Tasks |-> IdleScan]
    /\ env = NoChange
    /\ removedSince = {}
    /\ lastListing = NoListing
    /\ scansLeft = MaxLiveScans
    /\ updates = 0
    /\ disk = DiskOk
    /\ folder_name = <<>>
    /\ parsed = NotParsed
    /\ folder_state_dict = NoDict
    /\ bot_data = StartBotData
    /\ recent = NoCommand
    /\ message = NoMessage

\* every call a scan awaits returns, and the event loop runs the scan on:
\* a step of the scan that can be taken is taken
SpecLive == InitLive /\ [][Next]_vars /\ WF_vars(ScanStep("job"))

(* --------------------------- /recent on its own ------------------------ *)

\* the records of a cache that /recent reads
MaxRecords == 3

\* the folder names of those records
RecentNames == {<<"a">>, <<"a", "b">>, <<"b">>}

\* added_timestamp: absent, no ISO date, or one of two times
RecentStamps == {0, -1, 1, 2}

\* the caches: up to MaxRecords records, no name twice
RecentCaches ==
    {[isMap |-> TRUE,
      items |-> [i \in DOMAIN l |->
                    [name |-> l[i][1],
                     rec |-> [NewRecord("N/A", 1) EXCEPT !.added_timestamp = l[i][2]]]]] :
        l \in {m \in UNION {[1..n -> RecentNames \X RecentStamps] : n \in 0..MaxRecords} :
                  \A i, j \in DOMAIN m : m[i][1] = m[j][1] => i = j}}

\* the arguments
RecentArgs == {NoArg, WordArg} \cup {IntArg(n) : n \in -1..(MaxRecords + 1)}

InitRecent ==
    /\ fs = [r \in Roots |-> {}]
    /\ snapFile = SnapFile("missing", <<>>)
    /\ metaFile = MetaFile("missing", <<>>)
    /\ posters = {}
    /\ cache \in RecentCaches
    /\ now = 3
    /\ config = DefaultConfig
    /\ scan = [t \in Tasks |-> IdleScan]
    /\ env = NoChange
    /\ removedSince = {}
    /\ lastListing = NoListing
    /\ scansLeft = 0
    /\ updates = 0
    /\ disk = DiskOk
    /\ folder_name = <<>>
    /\ parsed = NotParsed
    /\ folder_state_dict = NoDict
    /\ bot_data = StartBotData
    /\ \E a \in RecentArgs : recent = [NoCommand EXCEPT !.pc = "sent", !.arg = a]
    /\ message = NoMessage

\* the handler runs to its end, while no scan is inside a synchronous
\* stretch; the records it changes are those of the dict it finds in bot_data
RecentStep ==
    /\ recent.pc = "sent"
    /\ \A u \in Tasks : scan[u].pc \in AwaitPcs
    /\ LET out == recent_command(SeenCache, recent.arg)
       IN  recent' = [recent EXCEPT !.pc = "done", !.replies = out.replies,
                                    !.raised = out.raised]
    /\ IF bot_data.shared
       THEN /\ cache' = recent_command_leaves(cache, recent.arg)
            /\ UNCHANGED bot_data
       ELSE /\ bot_data' = [bot_data EXCEPT !.own = recent_command_leaves(@, recent.arg)]
            /\ UNCHANGED cache
    /\ UNCHANGED <<fs, snapFile, metaFile, posters, now, config, scan, env,
                   removedSince, lastListing, scansLeft, updates, disk, folder_name,
                   parsed, folder_state_dict, message>>

NextRecent == RecentStep

SpecRecent == InitRecent /\ [][NextRecent]_vars

(* ------------------ /recent while the scheduled scan runs -------------- *)

\* the scans of the behaviours in which a /recent command arrives
MaxHandlerScans == 2

\* a /recent command without argument is on its way
InitHandlers ==
    /\ fs \in Libraries
    /\ snapFile = SnapFile("missing", <<>>)
    /\ metaFile = MetaFile("missing", <<>>)
    /\ posters = {}
    /\ cache = EmptyCache
    /\ now = 0
    /\ config = DefaultConfig
    /\ scan = [t \in Tasks |-> IdleScan]
    /\ env = NoChange
    /\ removedSince = {}
    /\ lastListing = NoListing
    /\ scansLeft = MaxHandlerScans
    /\ updates = 0
    /\ disk = DiskOk
    /\ folder_name = <<>>
    /\ parsed = NotParsed
    /\ folder_state_dict = NoDict
    /\ bot_data = StartBotData
    /\ recent = [NoCommand EXCEPT !.pc = "sent", !.arg = NoArg]
    /\ message = NoMessage

\* the application handles the command whenever no coroutine is running:
\* between two scans, or while the scan of the JobQueue job is at an await
NextHandlers ==
    \/ ScanStep("job")
    \/ FsChange
    \/ RecentStep

SpecHandlers == InitHandlers /\ [][NextHandlers]_vars

(* ------------------ a folder name on its way to the text --------------- *)

\* the longest folder name drawn
MaxNameLen == 3

\* a letter, two Markdown V2 special characters and the backslash
NameChars == {"a", ".", "-", "\\"}

\* the folder names drawn
EscapeNames == UNION {[1..n -> NameChars] : n \in 1..MaxNameLen}

\* a folder with that name was added without a poster, or removed, and the
\* text either fits one message or is split
InitEscape ==
    /\ fs = [r \in Roots |-> {}]
    /\ snapFile = SnapFile("missing", <<>>)
    /\ metaFile = MetaFile("missing", <<>>)
    /\ posters = {}
    /\ cache = EmptyCache
    /\ now = 1
    /\ config = DefaultConfig
    /\ scan = [t \in Tasks |-> IdleScan]
    /\ env = NoChange
    /\ removedSince = {}
    /\ lastListing = NoListing
    /\ scansLeft = 0
    /\ updates = 0
    /\ disk = DiskOk
    /\ folder_name \in EscapeNames
    /\ parsed = NotParsed
    /\ folder_state_dict = NoDict
    /\ bot_data = StartBotData
    /\ recent = NoCommand
    /\ \E k \in {"plain", "removed"}, tooLong \in BOOLEAN :
          message = [NoMessage EXCEPT !.pc = "new", !.kind = k, !.split = tooLong]

\* the entry is built: appended to telegram_message_parts in the loop over the
\* roots, and built again from the raw name when the text is split
BuildEntry ==
    /\ message.pc = "new"
    /\ message' = [message EXCEPT
                     !.pc = "built",
                     !.line = IF message.split
                              THEN SectionEntry(message.kind, folder_name)
                              ELSE AppendedEntry(message.kind, folder_name)]
    /\ UNCHANGED <<fs, snapFile, metaFile, posters, cache, now, config, scan, env,
                   removedSince, lastListing, scansLeft, updates, disk, folder_name,
                   parsed, folder_state_dict, bot_data, recent>>

\* the text around the entry is escaped as a whole and handed to
\* send_telegram_message
SendEntry ==
    /\ message.pc = "built"
    /\ message' = [message EXCEPT !.pc = "sent",
                                  !.text = escape_markdown_v2(message.line)]
    /\ UNCHANGED <<fs, snapFile, metaFile, posters, cache, now, config, scan, env,
                   removedSince, lastListing, scansLeft, updates, disk, folder_name,
                   parsed, folder_state_dict, bot_data, recent>>

NextEscape ==
    \/ BuildEntry
    \/ SendEntry

SpecEscape == InitEscape /\ [][NextEscape]_vars

(* --------------------- write_folder_state on its own ------------------- *)

\* the monitored roots of a configuration
MaxRoots == 2

\* the paths a configuration can name as monitored roots; the last is a
\* relative path
MonitoredPaths == {"r1", "r2", "last_updated"}

\* CONFIG['monitored_folders']: paths, none twice
MonitoredLists ==
    {l \in UNION {[1..n -> MonitoredPaths] : n \in 1..MaxRoots} :
        \A i, j \in DOMAIN l : l[i] = l[j] => i = j}

\* lines 147-153: current_folder_state, a set of names for every monitored
\* root, the keys in the order of the configuration
FolderStateDicts ==
    {[keys |-> l, sets |-> f] :
        l \in MonitoredLists, f \in [MonitoredPaths -> SUBSET Names]}

InitWrite ==
    /\ fs = [r \in Roots |-> {}]
    /\ snapFile = SnapFile("missing", <<>>)
    /\ metaFile = MetaFile("missing", <<>>)
    /\ posters = {}
    /\ cache = EmptyCache
    /\ now = 0
    /\ config = DefaultConfig
    /\ scan = [t \in Tasks |-> IdleScan]
    /\ env = NoChange
    /\ removedSince = {}
    /\ lastListing = NoListing
    /\ scansLeft = 0
    /\ updates = 0
    /\ disk = DiskOk
    /\ folder_name = <<>>
    /\ parsed = NotParsed
    /\ folder_state_dict \in FolderStateDicts
    /\ bot_data = StartBotData
    /\ recent = NoCommand
    /\ message = NoMessage

\* line 373: one call of write_folder_state, which succeeds
WriteStep ==
    /\ snapFile.kind = "missing"
    /\ now' = now + 1
    /\ snapFile' = SnapFile("object",
                      DumpedEntries(folder_state_dict.keys, folder_state_dict.sets, now'))
    /\ UNCHANGED <<fs, metaFile, posters, cache, config, scan, env, removedSince,
                   lastListing, scansLeft, updates, disk, folder_name, parsed,
                   folder_state_dict, bot_data, recent, message>>

NextWrite == WriteStep

SpecWrite == InitWrite /\ [][NextWrite]_vars

(* ===================== the properties of the scan ====================== *)

\* the roots whose comparison the scan has made so far
Diffed(sc) ==
    IF sc.pc = "idle" THEN {}
    ELSE {MonitoredFolders[i] : i \in 1..(IF sc.pc = "root" THEN sc.ri - 1 ELSE sc.ri)}

\* the positions after the comparison loop
PostLoop == {"notify", "photo", "textdecide", "text", "writeSnap", "writeMeta"}

\* the set a root has in the loaded previous snapshot, empty when it has none
Previous(sc, r) == IF r \in sc.old.roots THEN sc.old.sets[r] ELSE {}

(* ------------------------------- C1 ----------------------------------- *)

\* C1: for every monitored root the scan has compared, added is exactly the
\* names listed under that root now that are not in that root's set of the
\* loaded previous snapshot, removed is exactly the names of that set that
\* are not listed now, a root the previous snapshot lacks counts as empty,
\* and a root whose listing equals its previous set has no added and no
\* removed names: the diff of a root never looks at another root.
C1_DiffPerRoot ==
    \A t \in Tasks : \A r \in Diffed(scan[t]) :
        LET sc == scan[t] IN
        /\ sc.addedBy[r] = sc.listed[r] \ Previous(sc, r)
        /\ sc.removedBy[r] = Previous(sc, r) \ sc.listed[r]
        /\ r \notin sc.old.roots => sc.addedBy[r] = sc.listed[r] /\ sc.removedBy[r] = {}
        /\ sc.listed[r] = Previous(sc, r) => sc.addedBy[r] = {} /\ sc.removedBy[r] = {}

\* a scan that found added and removed names under the first root while the
\* second root, which gained the name the first one lost, was diffed on its own
C1_Witness ==
    \E t \in Tasks :
        LET sc == scan[t] IN
        /\ sc.pc \in PostLoop
        /\ sc.addedBy["r1"] = {<<"a", "b">>}
        /\ sc.removedBy["r1"] = {<<"a">>}
        /\ sc.addedBy["r2"] = {<<"a">>}
        /\ sc.old.roots = Roots

(* ------------------------------- C2 ----------------------------------- *)

\* the lists of names a snapshot file holds under each key, the stamp aside
FileLists(file) ==
    {<<file.entries[i].key, file.entries[i].list>> :
        i \in {j \in DOMAIN file.entries : file.entries[j].t = "list"}}

\* C2: a scan that finds the library as the scan before it listed it, and
\* folder_list.json as the program left it, finds no added and no removed
\* name under any root, and the snapshot it persists holds the same lists of
\* names as the snapshot it loaded (the timestamp may differ).
C2_Idempotent ==
    \A t \in Tasks :
        LET sc == scan[t] IN
        sc.rerun =>
            /\ \A r \in Diffed(sc) : sc.addedBy[r] = {} /\ sc.removedBy[r] = {}
            /\ sc.pc \in PostLoop => ~sc.has_changes
            /\ sc.pc = "writeMeta" =>
                  /\ snapFile.kind = "object" /\ sc.loaded.kind = "object"
                  /\ FileLists(snapFile) = FileLists(sc.loaded)

(* ------------------------------- C3 ----------------------------------- *)

\* C3: at most one scan is in flight: while one task is inside
\* periodic_folder_scan, suspended at an await or not, the other has not
\* begun loading state.
C3_OneScanInFlight ==
    \A t \in Tasks : \A u \in Tasks \ {t} :
        scan[t].pc # "idle" => scan[u].pc = "idle"

(* ------------------------------- C4 ----------------------------------- *)

\* C4: once the comparison loop is over, the scan leaves only by writing the
\* snapshot and then the metadata cache, in that order, whether every send
\* was delivered, some send failed, or no message was sent at all.
C4_PersistsWhateverTheSends ==
    [][\A t \in Tasks :
         /\ scan[t].pc \in PostLoop /\ scan'[t].pc \notin PostLoop
               => /\ scan[t].pc = "writeMeta"
                  /\ scan[t].writes = <<"snapshot">>
                  /\ scan'[t].outcome = "finished"
                  /\ metaFile' = write_media_metadata(cache)
                  /\ snapFile' = snapFile
         /\ scan[t].pc # "writeMeta" /\ scan'[t].pc = "writeMeta"
               => /\ scan[t].pc = "writeSnap"
                  /\ scan[t].writes = <<>>
                  /\ snapFile' = write_folder_state(scan[t].cur, now)
                  /\ metaFile' = metaFile
      ]_vars

\* a scan one of whose sends failed has written the snapshot and is about to
\* write the metadata cache
C4_Witness ==
    \E t \in Tasks :
        /\ scan[t].pc = "writeMeta"
        /\ scan[t].sendFailed
        /\ scan[t].has_changes
        /\ snapFile = write_folder_state(scan[t].cur, now)

(* ------------------------------- C5 ----------------------------------- *)

\* the records media_metadata.json holds
Persisted == read_media_metadata(metaFile).value

\* C5: no step changes the added timestamp a record of the cache holds as
\* long as the record stays, a step that stores a record fetched again
\* included.  The stamp media_metadata.json holds for a name changes only
\* when the scan that rewrites the file saw the name removed (and added
\* again under another root).
C5_AddedAtKept ==
    [][\A n \in Names :
         /\ (/\ CacheHas(cache, n) /\ CacheHas(cache', n)
             /\ CacheGet(cache, n).rec.added_timestamp # 0)
               => CacheGet(cache', n).rec.added_timestamp
                    = CacheGet(cache, n).rec.added_timestamp
         /\ (/\ CacheHas(Persisted, n) /\ CacheHas(Persisted', n)
             /\ CacheGet(Persisted, n).rec.added_timestamp # 0)
               => \/ CacheGet(Persisted', n).rec.added_timestamp
                       = CacheGet(Persisted, n).rec.added_timestamp
                  \/ \E t \in Tasks : \E r \in Roots : n \in scan[t].removedBy[r]
      ]_vars

(* ------------------------------- C6 ----------------------------------- *)

\* C6: a scan that sees added a name an earlier step saw removed does not
\* reuse a record for it before it has looked the name up itself, and has
\* looked it up by the end of its comparison loop.
C6_ReAddIsBrandNew ==
    \A t \in Tasks : \A n \in scan[t].readded :
        LET sc == scan[t] IN
        /\ n \in sc.reused => n \in sc.looked
        /\ sc.pc \in PostLoop => n \in sc.looked

(* ------------------------------- C7 ----------------------------------- *)

\* the names the comparison loop has put in the text as added under a root,
\* or in the queue of photos
Reported(sc, r) ==
    {sc.parts[i].name : i \in {j \in DOMAIN sc.parts :
                                  sc.parts[j].kind = "plain" /\ sc.parts[j].root = r}}
    \cup {sc.photos[i].name : i \in DOMAIN sc.photos}

\* C7: a scan that finds folder_list.json missing or unparseable does not
\* fail: it goes on with an empty previous state, so under every root every
\* name listed is added and announced as added, and no name is removed or
\* announced as removed.
C7_LostSnapshotMeansAllAdded ==
    \A t \in Tasks :
        LET sc == scan[t] IN
        /\ sc.outcome # "crashed"
        /\ sc.pc # "idle" /\ sc.loaded.kind \in {"missing", "garbage"} =>
              /\ sc.old = EmptyFolderState
              /\ \A r \in Diffed(sc) :
                    /\ sc.addedBy[r] = sc.listed[r] /\ sc.removedBy[r] = {}
                    /\ sc.pc = "notify" => \A n \in sc.listed[r] : n \in Reported(sc, r)
              /\ \A i \in DOMAIN sc.parts : sc.parts[i].kind \notin {"removed", "removed_title"}

\* after an earlier scan the snapshot was left unparseable, and the scan
\* that followed has announced the whole library as added
C7_Witness ==
    \E t \in Tasks :
        LET sc == scan[t] IN
        /\ sc.pc \in PostLoop
        /\ sc.loaded.kind = "garbage"
        /\ sc.started > 1
        /\ sc.listed["r1"] = Names /\ sc.listed["r2"] # {}
        /\ \A r \in Roots : sc.addedBy[r] = sc.listed[r] /\ sc.removedBy[r] = {}

(* ------------------------------- C8 ----------------------------------- *)

\* the names a scan found both in the previous and in the current set of
\* one root
InBoth(sc) ==
    UNION {FolderGet(sc.old, r) \cap FolderGet(sc.cur, r) : r \in Roots}

\* the poster files of a folder name: its sanitized name plus an extension
PostersOf(name, files) ==
    {f \in files : \E u \in PosterUrls : f = PosterFileName(name, u)}

\* the names some root gained or lost between the two snapshots of a scan
Changed(sc) ==
    UNION {AddedFor(sc.old, sc.cur, r) \cup RemovedFor(sc.old, sc.cur, r) : r \in Roots}

\* C8, for the folders whose name no root gained or lost: while a scan runs,
\* a folder it found both in the previous and in the current set of its root
\* keeps its cache record as it was when the scan started (none stays none),
\* gets no poster downloaded and keeps the poster files it had, whatever
\* other folders the scan adds or removes.
C8_InBothUntouched ==
    \A t \in Tasks :
        LET sc == scan[t] IN
        sc.pc # "idle" =>
            \A n \in InBoth(sc) \ Changed(sc) :
                /\ CacheGet(cache, n) = CacheGet(sc.cacheAtStart, n)
                /\ n \notin sc.downloaded
                /\ PostersOf(n, posters) = PostersOf(n, sc.postersAtStart)

(* ------------------------------- C9 ----------------------------------- *)

\* the orders in which the elements of a sequence can be stored
Orderings(s) ==
    {[i \in DOMAIN s |-> s[p[i]]] :
        p \in {q \in [DOMAIN s -> DOMAIN s] :
                  \A i, j \in DOMAIN s : q[i] = q[j] => i = j}}

\* the entries of a snapshot file with every list of names in every order
RECURSIVE ListOrderings(_)
ListOrderings(entries) ==
    IF entries = <<>> THEN {<<>>}
    ELSE {<<[Head(entries) EXCEPT !.list = l]>> \o rest :
              l \in Orderings(Head(entries).list),
              rest \in ListOrderings(Tail(entries))}

\* the files that hold what a snapshot file holds, keys and names in any order
SnapFileOrderings(file) ==
    {SnapFile(file.kind, q) :
        q \in UNION {ListOrderings(e) : e \in Orderings(file.entries)}}

\* the files that hold what a metadata file holds, keys in any order
MetaFileOrderings(file) == {MetaFile(file.kind, q) : q \in Orderings(file.items)}

\* C9: when a scan is about to save, in whatever order folder_list.json
\* stores the keys and the names that write_folder_state puts there,
\* read_folder_state gives back the monitored roots and the set of names of
\* every root of the state saved; in whatever order media_metadata.json
\* stores the keys write_media_metadata puts there, read_media_metadata
\* gives back the same mapping of names to records.
C9_RoundTrip ==
    \A t \in Tasks :
        LET sc == scan[t] IN
        sc.pc \in {"writeSnap", "writeMeta"} =>
            /\ \A f \in SnapFileOrderings(write_folder_state(sc.cur, now)) :
                  LET back == read_folder_state(f) IN
                  /\ ~back.raised
                  /\ back.value.roots = sc.cur.roots
                  /\ \A r \in Roots : FolderGet(back.value, r) = FolderGet(sc.cur, r)
            /\ \A g \in MetaFileOrderings(write_media_metadata(cache)) :
                  LET back == read_media_metadata(g) IN
                  /\ ~back.raised
                  /\ back.value.isMap
                  /\ CacheMapping(back.value) = CacheMapping(cache)

\* a scan has saved a snapshot with two names under one root and is about
\* to save a cache of two records
C9_Witness ==
    \E t \in Tasks :
        /\ scan[t].pc = "writeMeta"
        /\ snapFile = write_folder_state(scan[t].cur, now)
        /\ scan[t].cur.sets["r1"] = Names
        /\ CacheKeys(cache) = Names

(* ------------------------------- C10 ---------------------------------- *)

\* C10: whatever the two files hold when a scan starts, neither loader
\* raises, the scan does not fail, and what each loader gave the scan is a
\* mapping: the stored one or an empty one.
C10_LoadersGiveMappings ==
    \A t \in Tasks :
        LET sc == scan[t] IN
        /\ sc.outcome # "crashed"
        /\ sc.pc # "idle" =>
              /\ sc.cacheAtStart.isMap
              /\ \/ sc.cacheAtStart = EmptyCache
                 \/ metaFile.kind = "object" /\ sc.cacheAtStart.items = metaFile.items
              /\ \/ sc.old = EmptyFolderState
                 \/ Loadable(sc.loaded) /\ sc.old = LoadedState(sc.loaded.entries)

(* ------------------------------- C11 ---------------------------------- *)

\* the cache holds a record with a fetch timestamp for the name
HasFetched(c, n) == CacheHas(c, n) /\ CacheGet(c, n).rec.last_fetched # 0

\* C11: a scan that comes to an added folder whose name has a record with a
\* fetch timestamp in the cache takes that record as the folder's metadata,
\* leaves the cache as it is and calls no lookup; and whenever a scan calls
\* the lookup, the cache holds no such record for the name.
C11_CachedMeansNoLookup ==
    [][\A t \in Tasks :
         LET sc == scan[t] IN
         /\ (/\ sc.pc = "add" /\ sc.todo # <<>> /\ scan'[t] # sc
             /\ HasFetched(cache, Head(sc.todo)))
               => /\ scan'[t].pc # "fetch"
                  /\ scan'[t].metadata = CacheGet(cache, Head(sc.todo))
                  /\ Head(sc.todo) \in scan'[t].reused
                  /\ scan'[t].looked = sc.looked
                  /\ cache' = cache
         /\ (sc.pc # "fetch" /\ scan'[t].pc = "fetch")
               => /\ sc.pc = "add"
                  /\ scan'[t].name = Head(sc.todo)
                  /\ ~HasFetched(cache, scan'[t].name)
      ]_vars

\* a scan found a folder added whose record an earlier scan had fetched, and
\* went on without a lookup
C11_Witness ==
    \E t \in Tasks : \E n \in scan[t].reused :
        LET sc == scan[t] IN
        /\ sc.pc \in PostLoop
        /\ n \notin sc.looked
        /\ CacheGet(cache, n).rec.last_fetched # 0
        /\ CacheGet(cache, n).rec.last_fetched < sc.started

(* ------------------------------- C12 ---------------------------------- *)

\* the added folders the text lists as plain entries, under any root
PlainEntries(sc) ==
    {sc.parts[i].name : i \in {j \in DOMAIN sc.parts : sc.parts[j].kind = "plain"}}

\* the same, of the text that goes out
PlainEntriesSent(sc) ==
    {sc.text[i].name : i \in {j \in DOMAIN sc.text : sc.text[j].kind = "plain"}}

\* C12: when the lookup of an added folder returns nothing, that step leaves
\* the cache and the posters directory as they are, starts no download and
\* appends the folder to the text as a plain entry; the entry is still in the
\* text when the comparison loop is over, and that text is sent, whole or
\* split, with the entry in it.
C12_NotFoundIsPlain ==
    [][\A t \in Tasks :
         LET sc == scan[t] IN
         /\ (/\ sc.pc = "fetch" /\ scan'[t].pc \notin {"fetch", "idle"}
             /\ ~scan'[t].metadata.some)
               => /\ cache' = cache
                  /\ posters' = posters
                  /\ scan'[t].pc = "add"
                  /\ scan'[t].photos = sc.photos
                  /\ scan'[t].downloaded = sc.downloaded
                  /\ scan'[t].parts =
                        Append(sc.parts, Part("plain", MonitoredFolders[sc.ri], sc.name))
         /\ (sc.pc \in PostLoop \/ scan'[t].pc \in PostLoop)
               => /\ sc.lookupFailed \subseteq PlainEntries(sc)
                  /\ scan'[t].lookupFailed \subseteq PlainEntries(scan'[t])
         /\ (sc.pc = "textdecide" /\ sc.lookupFailed # {} /\ scan'[t] # sc)
               => /\ scan'[t].pc = "text"
                  /\ sc.lookupFailed \subseteq PlainEntriesSent(scan'[t])
      ]_vars

\* the lookup of an added folder returned nothing, no record is in the cache
\* for it, and the text that lists it is being sent
C12_Witness ==
    \E t \in Tasks : \E n \in scan[t].lookupFailed :
        /\ scan[t].pc = "text"
        /\ ~CacheHas(cache, n)
        /\ n \in PlainEntries(scan[t])
        /\ n \in PlainEntriesSent(scan[t])
        /\ n \notin scan[t].downloaded

(* ------------------------------- C13 ---------------------------------- *)

\* C13: a poster download that fails does not stop the scan, which goes on
\* with the next added folder and lists this one as a plain entry; and once
\* the comparison loop is over, the cache record of a folder whose download
\* failed in this scan (and did not succeed in it under another root), fetched
\* in this scan or reused, holds no local poster path.
C13_FailedDownloadLeavesNoPath ==
    \A t \in Tasks :
        LET sc == scan[t] IN
        /\ sc.downloadFailed # {} => sc.outcome # "crashed" /\ sc.pc # "idle"
        /\ sc.pc \in PostLoop =>
              \A n \in sc.downloadFailed \ sc.downloaded :
                  /\ n \in PlainEntries(sc)
                  /\ CacheHas(cache, n) =>
                        CacheGet(cache, n).rec.local_poster_path = NoPath

(* ------------------------------- C14 ---------------------------------- *)

C15_OneFailureNeverAborts ==
    \A t \in Tasks :
        LET sc == scan[t] IN
        /\ sc.outcome # "crashed"
        /\ sc.lookupFailed \cup sc.downloadFailed # {} => sc.pc # "idle"

(* ------------------------------- C16 ---------------------------------- *)

\* the names the text lists as removed under a root
RemovedEntries(sc, r) ==
    {sc.parts[i].name : i \in {j \in DOMAIN sc.parts :
                                  sc.parts[j].kind = "removed" /\ sc.parts[j].root = r}}

\* the names the text that goes out lists as removed under a root
RemovedEntriesSent(sc, r) ==
    {sc.text[i].name : i \in {j \in DOMAIN sc.text :
                                 sc.text[j].kind = "removed" /\ sc.text[j].root = r}}

\* C16: a scan that finds a monitored root missing from the disk does not
\* fail and lists no child for it; its comparison of that root finds nothing
\* added and the whole previous set removed; the step that handles those
\* names leaves none of them a cache record or a poster file and lists each
\* as removed, which the text still does when the loop is over and when it
\* is sent, whole or split; and the snapshot the scan writes holds the root
\* with no name.
C16_MissingRootIsEmpty ==
    [][\A t \in Tasks : \A r \in disk.gone :
         LET sc == scan[t]
             to == scan'[t]
         IN
         /\ to.outcome # "crashed"
         /\ to.pc # "idle" => to.listed[r] = {} /\ FolderGet(to.cur, r) = {}
         /\ (sc.pc = "root" /\ MonitoredFolders[sc.ri] = r /\ to # sc)
               => /\ to.added = {}
                  /\ to.removed = Previous(sc, r)
                  /\ to.pc = "evict"
         /\ (sc.pc = "evict" /\ MonitoredFolders[sc.ri] = r /\ to # sc)
               => /\ to.pc \in {"root", "notify"}
                  /\ \A n \in Previous(sc, r) :
                        /\ ~CacheHas(cache', n)
                        /\ PostersOf(n, posters') = {}
                        /\ n \in RemovedEntries(to, r)
         /\ to.pc \in PostLoop => Previous(to, r) \subseteq RemovedEntries(to, r)
         /\ to.pc = "text" => Previous(to, r) \subseteq RemovedEntriesSent(to, r)
         /\ (sc.pc = "writeSnap" /\ to.pc = "writeMeta")
               => /\ Loadable(snapFile')
                  /\ r \in LoadedState(snapFile'.entries).roots
                  /\ FolderGet(LoadedState(snapFile'.entries), r) = {}
      ]_vars

(* ------------------------------- C17 ---------------------------------- *)

\* the name ends in "(", four digits and ")"
EndsInParenYear(s) ==
    /\ Len(s) >= 6
    /\ s[Len(s)] = ")"
    /\ s[Len(s) - 5] = "("
    /\ \A j \in (Len(s) - 4)..(Len(s) - 1) : IsDigit(s[j])

\* the name ends in four digits
EndsInFourDigits(s) ==
    /\ Len(s) >= 4
    /\ \A j \in (Len(s) - 3)..Len(s) : IsDigit(s[j])

\* what precedes the four digits, less one ".", "-" or "_" before them
BeforeYear(s) ==
    LET p == SubSeq(s, 1, Len(s) - 4)
    IN  IF p # <<>> /\ p[Len(p)] \in {".", "-", "_"}
        THEN SubSeq(p, 1, Len(p) - 1) ELSE p

\* p with every "." and "-" turned into a space
Spaced(p) == [i \in DOMAIN p |-> IF p[i] \in {".", "-"} THEN " " ELSE p[i]]

\* t is p without its leading and trailing spaces
IsTrimOf(t, p) ==
    /\ t = <<>> \/ (t[1] # " " /\ t[Len(t)] # " ")
    /\ \E i \in 0..Len(p) :
          /\ i + Len(t) <= Len(p)
          /\ SubSeq(p, i + 1, i + Len(t)) = t
          /\ \A j \in (1..i) \cup ((i + Len(t) + 1)..Len(p)) : p[j] = " "

HasPath(c, n) == CacheHas(c, n) /\ CacheGet(c, n).rec.local_poster_path # NoPath

\* task t is enriching the name n, which its comparison found added under
\* the root it is at
Adding(t, n) ==
    LET sc == scan[t]
        r == MonitoredFolders[sc.ri]
    IN  /\ sc.pc \in {"fetch", "download"}
        /\ sc.name = n
        /\ n \in sc.added
        /\ n \in FolderGet(sc.cur, r) \ FolderGet(sc.old, r)

\* a scan starts, which reloads the cache from media_metadata.json
Reloading == \E t \in Tasks : scan[t].pc = "idle" /\ scan'[t].pc # "idle"

\* C18: from an empty cache and an empty file, every record of the cache
\* carries last_fetched and added_timestamp; a record enters the cache only
\* in the enrichment of its name by a scan that found the name added (or
\* when a scan reloads it from the file), and a record gets a local poster
\* path only when a download for its name has succeeded (or when reloaded
\* with it); the file gets its records from the cache alone.
C18_RecordsComeFromAdditions ==
    [][\A n \in Names :
         /\ CacheHas(cache', n) =>
               /\ CacheGet(cache', n).rec.last_fetched # 0
               /\ CacheGet(cache', n).rec.added_timestamp # 0
         /\ (CacheHas(cache', n) /\ ~CacheHas(cache, n)) =>
               \/ \E t \in Tasks : Adding(t, n) /\ scan'[t] # scan[t]
               \/ Reloading /\ CacheHas(Persisted, n)
         /\ (HasPath(cache', n) /\ ~HasPath(cache, n)) =>
               \/ \E t \in Tasks :
                     /\ Adding(t, n)
                     /\ scan[t].pc = "download"
                     /\ n \in scan'[t].downloaded
                     /\ CacheGet(cache', n).rec.local_poster_path \in posters'
               \/ Reloading /\ HasPath(Persisted, n)
         /\ (metaFile' # metaFile /\ CacheHas(Persisted', n)) =>
               /\ CacheHas(cache, n)
               /\ CacheGet(Persisted', n) = CacheGet(cache, n)
      ]_vars

\* a later scan has reloaded from the file a record with a local poster
\* path, which an earlier scan fetched, downloaded and wrote
C18_Witness ==
    \E t \in Tasks : \E n \in Names :
        /\ scan[t].pc = "root"
        /\ HasPath(cache, n)
        /\ HasPath(Persisted, n)
        /\ CacheGet(cache, n).rec.added_timestamp < scan[t].started
        /\ n \notin scan[t].looked

(* ------------------------------- C19 ---------------------------------- *)

\* C19: a lookup starts only for the next name of the added list of the root
\* the scan is at, a name that is under the root now and was not in the
\* snapshot the scan loaded; when the lookup returns, found or not, the name
\* leaves the list, which holds no name twice and only shrinks while the scan
\* is at that root, and the scan never goes back to an earlier root.  So a
\* failed lookup is not tried again in the scan, and a later scan that loads
\* a snapshot with the folder in it makes no lookup for it.
C19_LookupOncePerAddition ==
    [][\A t \in Tasks :
         LET sc == scan[t]
             to == scan'[t]
         IN
         /\ (to.pc = "fetch" /\ sc.pc # "fetch") =>
               /\ sc.pc = "add"
               /\ sc.todo # <<>>
               /\ to.name = Head(sc.todo)
               /\ to.todo = sc.todo
               /\ to.name \in FolderGet(sc.cur, MonitoredFolders[sc.ri])
               /\ to.name \notin FolderGet(sc.old, MonitoredFolders[sc.ri])
               /\ Loadable(sc.loaded) =>
                     to.name \notin FolderGet(LoadedState(sc.loaded.entries),
                                              MonitoredFolders[sc.ri])
         /\ (sc.pc = "fetch" /\ to # sc) =>
               /\ to.pc \in {"add", "download", "idle"}
               /\ to.looked = IF to.pc = "idle" THEN {} ELSE sc.looked \cup {sc.name}
               /\ to.pc = "add" => to.todo = Tail(sc.todo)
               /\ to.pc = "download" => to.todo = sc.todo /\ to.name = sc.name
         /\ (sc.pc = "download" /\ to # sc /\ to.pc # "idle") =>
               /\ to.pc = "add"
               /\ to.todo = Tail(sc.todo)
         /\ sc.pc \in {"add", "fetch", "download"} =>
               /\ \A i, j \in DOMAIN sc.todo : sc.todo[i] = sc.todo[j] => i = j
               /\ to.pc \in {"add", "fetch", "download"} =>
                     /\ to.ri = sc.ri
                     /\ Len(to.todo) <= Len(sc.todo)
         /\ (sc.pc # "idle" /\ to.pc # "idle") => to.ri >= sc.ri
      ]_vars

\* the first scan looked a folder up and found nothing; the second scan,
\* which read the folder in the snapshot and listed it again, has come to
\* its end without a lookup, and the folder has no record
C19_Witness ==
    \E t \in Tasks : \E r \in Roots : \E n \in Names :
        LET sc == scan[t] IN
        /\ sc.pc = "writeMeta"
        /\ sc.started = 2
        /\ Loadable(sc.loaded)
        /\ n \in FolderGet(sc.old, r)
        /\ n \in FolderGet(sc.cur, r)
        /\ ~CacheHas(cache, n)
        /\ sc.looked = {}

(* ------------------------------- C20 ---------------------------------- *)

\* the phase a position of the scan belongs to
Phase(pc) ==
    CASE pc \in {"root", "add", "fetch", "download", "evict"} -> 1
      [] pc \in {"notify", "photo", "textdecide", "text"} -> 2
      [] pc \in {"writeSnap", "writeMeta"} -> 3
      [] OTHER -> 0

\* C20: a scan goes through its phases in order.  It begins comparing with
\* the cache reloaded, then the previous snapshot read, then every root
\* listed; it never goes back to an earlier phase; it starts to notify only
\* from the eviction of the last root, and no send returns outside the
\* notification phase; the cache and the posters change only at the reload
\* and in the comparison phase; it starts to write only from the text stage,
\* with no photo left to send, and the snapshot file and then the cache file
\* are written only in the last phase.
C20_PhasesInOrder ==
    [][/\ \A t \in Tasks :
         LET sc == scan[t]
             to == scan'[t]
         IN
         /\ (sc.pc = "idle" /\ to.pc # "idle") =>
               /\ to.pc = "root" /\ to.ri = 1
               /\ to.reads = <<"metadata", "snapshot", "listing">>
               /\ to.cacheAtStart = read_media_metadata(metaFile).value
               /\ cache' = to.cacheAtStart
               /\ to.old = read_folder_state(snapFile).value
               /\ to.listed = fs
               /\ to.writes = <<>> /\ to.photos = <<>> /\ to.parts = <<>>
               /\ ~to.sendFailed
         /\ (sc.pc # "idle" /\ to.pc # "idle") => Phase(to.pc) >= Phase(sc.pc)
         /\ (Phase(to.pc) = 2 /\ Phase(sc.pc) # 2) =>
               /\ sc.pc = "evict"
               /\ sc.ri = Len(MonitoredFolders)
               /\ to.pc = "notify"
         /\ (/\ to.pc # "idle"
             /\ to.sendFailed # sc.sendFailed \/ Len(to.photos) < Len(sc.photos)) =>
               sc.pc \in {"photo", "text"}
         /\ (Phase(to.pc) = 3 /\ Phase(sc.pc) # 3) =>
               /\ sc.pc \in {"textdecide", "text"}
               /\ sc.photos = <<>>
               /\ to.pc = "writeSnap"
               /\ to.writes = <<>>
         /\ (to.pc # "idle" /\ to.writes # sc.writes) => Phase(sc.pc) = 3
       /\ snapFile' # snapFile =>
            \/ \E t \in Tasks : scan[t].pc = "writeSnap" /\ scan'[t].pc = "writeMeta"
            \/ \A t \in Tasks : scan[t].pc = "idle" /\ scan'[t].pc = "idle"
       /\ metaFile' # metaFile =>
            \E t \in Tasks : scan[t].pc = "writeMeta" /\ scan'[t].pc = "idle"
       /\ (cache' # cache \/ posters' # posters) =>
            \E t \in Tasks : Phase(scan[t].pc) <= 1 /\ scan'[t] # scan[t]
      ]_vars

\* a scan that enriched an added folder, evicted a removed one and sent two
\* photos and a text is writing the cache file, the snapshot written
C20_Witness ==
    \E t \in Tasks :
        LET sc == scan[t] IN
        /\ sc.pc = "writeMeta"
        /\ sc.downloaded # {}
        /\ \E r \in Roots : sc.removedBy[r] # {}
        /\ Cardinality(sc.downloaded) >= 2
        /\ sc.has_changes
        /\ snapFile = write_folder_state(sc.cur, now)

(* ------------------------------- C21 ---------------------------------- *)

\* the entries a snapshot file holds under a key
EntriesUnder(file, key) == {i \in DOMAIN file.entries : file.entries[i].key = key}

\* names in ascending order, none twice
StrictlyAscending(l) == \A i, j \in DOMAIN l : i < j => StrLess(l[i], l[j])

\* C21: the snapshot that a successful write_folder_state leaves holds, for
\* every configured monitored root, exactly one entry, whose value is the
\* list, ascending and without duplicates, of the names listed for the root;
\* and one entry more, "last_updated" with the time, which is none of the
\* root entries.
C21_OneEntryPerRoot ==
    snapFile.kind = "object" =>
        LET d == folder_state_dict IN
        /\ Len(snapFile.entries) = Len(d.keys) + 1
        /\ \A k \in Range(d.keys) :
              /\ Cardinality(EntriesUnder(snapFile, k)) = 1
              /\ \A i \in EntriesUnder(snapFile, k) :
                    /\ snapFile.entries[i].t = "list"
                    /\ Range(snapFile.entries[i].list) = d.sets[k]
                    /\ StrictlyAscending(snapFile.entries[i].list)
        /\ \E i \in DOMAIN snapFile.entries :
              /\ EntriesUnder(snapFile, "last_updated") = {i}
              /\ snapFile.entries[i].t = "stamp"
              /\ snapFile.entries[i].stamp = now

(* ------------------------------- C22 ---------------------------------- *)

C23_NoChangeNoMessage ==
    [][\A t \in Tasks :
         LET sc == scan[t]
             to == scan'[t]
         IN
         (sc.pc = "textdecide" /\ ~sc.has_changes /\ to # sc) =>
             /\ sc.overall_added_count = 0 /\ sc.overall_removed_count = 0
             /\ sc.photos = <<>> /\ ~sc.sendFailed
             /\ ~config.send_no_change_message => to.pc = "writeSnap"
             /\ config.send_no_change_message =>
                   /\ to.pc = "text"
                   /\ to.text = <<Part("status_title", "", <<>>)>>
      ]_vars

(* ------------------------------- C24 ---------------------------------- *)

\* C24: when the send of a queued photo has returned, the text fallback for
\* the item has been sent if the photo was not delivered, and only then.
C24_FallbackForUndelivered ==
    [][\A t \in Tasks :
         LET sc == scan[t]
             to == scan'[t]
         IN
         (sc.pc = "photo" /\ to # sc /\ to.pc # "idle") =>
             LET n == Head(sc.photos).name IN
             /\ to.fallbacks \ sc.fallbacks \subseteq {n}
             /\ (to.fallbacks # sc.fallbacks) <=> (to.undelivered # sc.undelivered)
             /\ to.fallbacks \subseteq to.undelivered
             /\ (n \in to.undelivered \ sc.undelivered) => n \in to.fallbacks
      ]_vars

(* ------------------------------- C25 ---------------------------------- *)

\* C25: the cache dict the handlers find in bot_data is at all times the
\* dict the scans change and write, so when a scan has written the cache
\* file and returned, the handlers see the records that are in the file;
\* and the folder state they find there is the listing of the latest scan
\* that listed the library, the very dict that scan compares and writes.
C25_HandlersSeeTheScansCache ==
    [][/\ bot_data'.shared
       /\ SeenCache' = cache'
       /\ \A t \in Tasks :
            /\ (scan[t].pc = "writeMeta" /\ scan'[t].pc = "idle") =>
                  /\ metaFile' = write_media_metadata(SeenCache')
                  /\ read_media_metadata(metaFile').value = SeenCache'
            /\ (scan'[t].pc # "idle" /\ bot_data'.state_of = t) =>
                  bot_data'.current_folder_state = scan'[t].cur
       /\ lastListing'.some =>
            /\ bot_data'.state_of # "none"
            /\ bot_data'.current_folder_state.roots = Roots
            /\ bot_data'.current_folder_state.sets = lastListing'.sets
      ]_vars

\* a scan has returned; the handlers see the two records it wrote to the
\* cache file, and the listing it wrote to the snapshot, stamp included
C25_Witness ==
    /\ \A t \in Tasks : scan[t].pc = "idle"
    /\ scan["job"].outcome = "finished"
    /\ Cardinality(CacheKeys(SeenCache)) = 2
    /\ metaFile = write_media_metadata(SeenCache)
    /\ bot_data.current_folder_state.last_updated = now
    /\ snapFile = write_folder_state(bot_data.current_folder_state, now)

(* ------------------------------- C26 ---------------------------------- *)

\* the names the replies of the command list, in the order of the replies
RECURSIVE Listed(_)
Listed(replies) ==
    IF replies = <<>> THEN <<>> ELSE Head(replies).items \o Listed(Tail(replies))

\* the stamps of the records the cache holds under the names of a list
StampsOf(c, names) == [i \in DOMAIN names |-> CacheGet(c, names[i]).rec.added_timestamp]

\* C26: /recent with N (3 when no argument is given) lists min(N, k) records,
\* k being the number of records with a valid added_timestamp: no record
\* twice, none without a valid timestamp, in descending order of timestamp,
\* and no record that is left out is more recent than one that is listed.  An
\* argument that is no integer or is not positive gets the usage error alone.
C26_RecentListsTheMostRecent ==
    recent.pc = "done" =>
        LET arg == recent.arg
            n == IF arg.given THEN arg.n ELSE 3
            valid == {nm \in CacheKeys(cache) : CacheGet(cache, nm).rec.added_timestamp > 0}
            k == Cardinality(valid)
            names == Listed(recent.replies)
            stamps == StampsOf(cache, names)
        IN  IF arg.given /\ (~arg.int \/ arg.n <= 0)
            THEN recent.replies = <<Reply("usage", <<>>)>>
            ELSE /\ Len(names) = IF n < k THEN n ELSE k
                 /\ \A i, j \in DOMAIN names : names[i] = names[j] => i = j
                 /\ Range(names) \subseteq valid
                 /\ \A i, j \in DOMAIN names : i < j => stamps[i] >= stamps[j]
                 /\ \A nm \in valid \ Range(names) : \A i \in DOMAIN names :
                       CacheGet(cache, nm).rec.added_timestamp <= stamps[i]

(* ------------------------------- C27 ---------------------------------- *)

\* one backslash in front of every backslash and special character
RECURSIVE OnceEscaped(_)
OnceEscaped(s) ==
    IF s = <<>> THEN <<>>
    ELSE (IF Head(s) = "\\" \/ Head(s) \in Range(MarkdownSpecials)
          THEN <<"\\", Head(s)>> ELSE <<Head(s)>>)
         \o OnceEscaped(Tail(s))

\* C27: in the text handed to the transport, the name of an added plain
\* entry or of a removed entry has passed through escape_markdown_v2 exactly
\* once: each of its special characters is preceded by exactly one backslash
C27_NameEscapedOnce ==
    message.pc = "sent" =>
        message.text = OnceEscaped(EntryPrefix) \o OnceEscaped(folder_name)
                         \o OnceEscaped(EntrySuffix(message.kind))

(* ------------------------------- C28 ---------------------------------- *)

\* the child names folder_list.json holds, under any monitored root
SnapshotNames(file) ==
    UNION {FolderGet(read_folder_state(file).value, r) : r \in Roots}

\* C28: when a scan has written the two files and returned, every folder
\* name that is a key of media_metadata.json is a child name of some
\* monitored root in folder_list.json: the cache file holds no record of a
\* folder the snapshot does not list.
C28_NoOrphanRecords ==
    [][\A t \in Tasks :
           (scan[t].pc = "writeMeta" /\ scan'[t].pc = "idle") =>
               CacheKeys(read_media_metadata(metaFile').value)
                   \subseteq SnapshotNames(snapFile')
      ]_vars

(* ------------------------------- C29 ---------------------------------- *)

\* the local poster paths the records of a cache hold
PosterPaths(c) ==
    {c.items[i].rec.local_poster_path : i \in DOMAIN c.items} \ {NoPath}

\* C29: when a scan has written the two files and returned, every record of
\* the cache that holds a local poster path names a file of the posters
\* directory: the poster downloaded for a folder added in the scan has
\* not been deleted with the poster of another folder removed in it.
C29_PosterFilesExist ==
    [][\A t \in Tasks :
           (scan[t].pc = "writeMeta" /\ scan'[t].pc = "idle") =>
               PosterPaths(cache') \subseteq posters'
      ]_vars

(* ------------------------------- C30 ---------------------------------- *)

\* the step deletes the cache record of the name, or its poster file
Evicts(n) ==
    \/ CacheHas(cache, n) /\ ~CacheHas(cache', n)
    \/ \E f \in posters \ posters' : f = Sanitize(n) \o <<".jpg">>

\* C30: a scan evicts the record and the poster of a folder name only if no
\* monitored root lists the name in the scan's current listing: a name
\* removed from one root and still present under another keeps both.
C30_EvictedOnlyIfAbsentEverywhere ==
    [][\A t \in Tasks : \A n \in Names :
           (scan[t].pc = "evict" /\ n \in scan[t].removed /\ Evicts(n)) =>
               \A r \in Roots : n \notin FolderGet(scan[t].cur, r)
      ]_vars

(* ------------------------------- C31 ---------------------------------- *)

\* C31: a /recent command, run between two scans or while a scan is at an
\* await, changes no record of the shared cache and neither file; and the
\* cache write of a scan never fails: it never leaves media_metadata.json
\* truncated.
C31_QueriesAreReadOnly ==
    [][/\ (recent.pc = "sent" /\ recent'.pc = "done") =>
              /\ cache' = cache
              /\ metaFile' = metaFile
       /\ \A t \in Tasks :
              (scan[t].pc = "writeMeta" /\ scan'[t].pc = "idle") =>
                  metaFile'.kind # "garbage"
      ]_vars

(* ------------------------------- C32 ---------------------------------- *)

\* the place of a monitored root in the configured list
RootIndex(r) == CHOOSE i \in DOMAIN MonitoredFolders : MonitoredFolders[i] = r

\* the scan found the name removed under a root that comes after a root
\* under which it found the name added
EvictedLater(sc, n) ==
    \E r1, r2 \in Roots :
        /\ n \in sc.addedBy[r1]
        /\ n \in sc.removedBy[r2]
        /\ RootIndex(r1) < RootIndex(r2)

\* C32: the cache file a scan writes at its end holds a record for every
\* name whose record the scan stored after a lookup that found the title,
\* the names it evicted after that excepted.
C32_NoLostUpdate ==
    [][\A t \in Tasks :
         LET sc == scan[t] IN
           (sc.pc = "writeMeta" /\ scan'[t].pc = "idle") =>
               \A n \in sc.looked \ sc.lookupFailed :
                   \/ EvictedLater(sc, n)
                   \/ CacheHas(read_media_metadata(metaFile').value, n)
      ]_vars

(* ------------------------------- C33 ---------------------------------- *)

\* the text holds a plain entry for the folder under the root
PlainEntryIn(text, r, n) == \E k \in DOMAIN text : text[k] = Part("plain", r, n)

\* C33: when a scan has sent its photos and decides on its text, every
\* folder it found added under a root is announced exactly once: its photo
\* was handed to the transport, with its poster file in place, or the text
\* that goes out holds its plain entry (or a fallback text was sent for
\* it), and never both.
C33_AnnouncedExactlyOnce ==
    [][\A t \in Tasks :
         LET sc == scan[t]
             to == scan'[t]
         IN
           (sc.pc = "textdecide" /\ to.pc \in {"text", "writeSnap"}) =>
               \A r \in Roots : \A n \in sc.addedBy[r] :
                   (<<r, n>> \in sc.handed)
                      # (PlainEntryIn(to.text, r, n) \/ n \in sc.fallbacks)
      ]_vars

(* ------------------------------- C34 ---------------------------------- *)

\* C34: for a folder name that is not empty once trimmed, the title
\* parse_folder_name returns is not empty, and the year it returns is absent
\* or is the four digits the name ends in, parentheses around them or not.
C34_TitleNeverEmpty ==
    (parsed.some /\ strip(folder_name) # <<>>) =>
        LET s == folder_name
            n == Len(s)
        IN
        /\ parsed.title # <<>>
        /\ \/ parsed.year = NoYear
           \/ EndsInParenYear(s) /\ parsed.year = SubSeq(s, n - 4, n - 1)
           \/ EndsInFourDigits(s) /\ parsed.year = SubSeq(s, n - 3, n)

====
